---- MODULE Spec2Model ----
(***************************************************************************)
(* A model of smb_tempest.py: the scheduler loop of __main__, the session  *)
(* task process_task, the aggregation of print_summary, the retry wrapper  *)
(* retry_operation and the file operations; and of the connection counter  *)
(* of win/smbgen.py.                                                       *)
(*                                                                         *)
(* Spec       one run of __main__: N session tasks on N workers, the       *)
(*            as_completed fan-in, the exit of the executor's with-block   *)
(*            and the summary.                                             *)
(* SpecRetry  one call of a function wrapped by retry_operation.           *)
(* SpecFold   print_summary on a list of results and on a reordering of it.*)
(* SpecCfg    argument parsing, merge with the config file, validation.    *)
(* SpecRio    smb_random_io with the retries of its wrapper.               *)
(* SpecFile   smb_create_file followed by smb_read_file, with the retries  *)
(*            of their wrappers.                                           *)
(* SpecFileLive  SpecFile with a block size of 0 too, every call ending.   *)
(* SpecPool   the thread pool of one call of smb_read_file.                *)
(* SpecGen    smbgen.py: the creation of a batch of sessions and their     *)
(*            reader threads.                                              *)
(* SpecUuid   get_client_uuid over successive runs.                        *)
(* SpecChurn  the default branch of one process_task call.                 *)
(* SpecHang   Spec with remote calls that may never return.                *)
(***************************************************************************)
EXTENDS Integers, Sequences, FiniteSets, TLC

(***************************************************************************)
(* Bounds of the model.                                                    *)
(***************************************************************************)
MaxSessions == 2        \* num_smb_sessions ranges over 0..MaxSessions
MaxElapsed == 2         \* elapsed seconds range over 0..MaxElapsed
MaxAttempts == 4        \* max_attempts ranges over 1..MaxAttempts
MaxResults == 3         \* print_summary is given lists of 0..MaxResults dicts
MaxFileSize == 2        \* max_file_size ranges over 0..MaxFileSize (MiB)
MaxOps == 2             \* num_random_ops ranges over 0..MaxOps
MaxCalls == 2           \* get_client_uuid is called 0..MaxCalls times
MaxExtraFiles == 1      \* random.randint(10, 10000) yields 10..10+MaxExtraFiles
MaxWrites == 4          \* the history of file.write calls keeps MaxWrites calls
MaxChunks == 10         \* a streaming read has 0..MaxChunks ranges to read
MaxConns == 2           \* smbgen creates 1..MaxConns sessions in one batch

(***************************************************************************)
(* Program constants.                                                      *)
(***************************************************************************)
MiB == 1048576          \* 1024**2
IopSize == 4096         \* the divisor of max_iops
MinRandomFiles == 10    \* random.randint(10, 10000)
MaxRandomFiles == 10000
ReadWorkers == 8        \* ThreadPoolExecutor(max_workers=8) of smb_read_file
SessionRetries == 3     \* max_retries of async_create_smb_session_with_retry

VARIABLES
    \* ---- the run of __main__ ----
    num_smb_sessions,   \* args.num_smb_sessions
    fail_fast,          \* args.fail_fast
    mode,               \* the mode flag that is set, "default" when none is
    args_block_size,    \* args.block_size, of the one args all tasks get
    main_pc,            \* position of the main thread
    task_pc,            \* position of each process_task call
    conn_open,          \* conn.connect() done and conn.disconnect() not done
    session_open,       \* session.connect() done, session.disconnect() not
    tree_open,          \* tree.connect() done, tree.disconnect() not
    stats,              \* the local dict stats of each process_task call
    call_failed,        \* a remote call of the task has raised
    dir_error,          \* ensure_directory_exists of the task has logged
                        \* an error (until the task ends)
    futures,            \* the state and the outcome of each future
    yielded,            \* the futures as_completed has yielded, in order
    task_stats,         \* the list task_stats
    elapsed,            \* time.time() - start
    summary,            \* what print_summary has printed
    \* ---- one call of a retry_operation wrapper ----
    max_attempts,       \* the decorator's max_attempts
    delay_seconds,      \* the decorator's delay_seconds
    retry_pc,           \* position inside wrapper
    attempt,            \* the loop variable attempt
    calls,              \* the outcome of every call of func so far, in order
    sleeps,             \* the argument of every time.sleep so far, in order
    retry_result,       \* how wrapper ended
    \* ---- print_summary applied to a list and to a permutation of it ----
    fold_list,          \* a list of task results
    fold_perm,          \* the same results in another order
    fold_elapsed,       \* the elapsed_time argument
    fold_pc,            \* "permute" until print_summary is applied
    fold_a,             \* print_summary(fold_list, fold_elapsed)
    fold_b,             \* print_summary(fold_perm, fold_elapsed)
    \* ---- the resolution of the configuration ----
    cfg_cli,            \* what the command line gives for each key
    cfg_loaded,         \* the config file exists and is loaded
    cfg_file,           \* what the config file gives for each key
    cfg_args,           \* the namespace args
    cfg_pc,             \* "parse", "merge", "validate", then the verdict
    \* ---- one attempt of smb_random_io ----
    rio_file_size,      \* the argument file_size
    rio_block_size,     \* the argument block_size
    rio_num_ops,        \* the argument num_ops
    rio_read_pct,       \* the argument read_pct
    rio_pc,             \* "open", "loop", "except", "returned", "raised"
    rio_ops,            \* the reads and writes of this attempt, in order
    rio_total,          \* total_bytes
    rio_attempt,        \* attempt of the wrapper around smb_random_io
    rio_transferred,    \* bytes moved by the reads and writes of all attempts
    \* ---- smb_create_file followed by smb_read_file (default mode) ----
    wr_size,            \* smb_create_file's argument size
    wr_block_size,      \* args.block_size, given to both functions
    file_pc,            \* "create", "write", "written", "read", then
                        \* "returned" or "raised"
    writes,             \* the file.write calls issued so far, in order
    total_written,      \* smb_create_file's total_written
    end_of_file,        \* the length of the remote file
    file_size,          \* smb_read_file's file_size
    offsets,            \* the chunks of smb_read_file not read yet
    rd_total_bytes,     \* smb_read_file's total_bytes
    op_failed,          \* TRUE once a remote operation has raised or has
                        \* done less than it was asked
    wr_attempt,         \* "attempt" of the wrapper around smb_create_file
    rd_attempt,         \* "attempt" of the wrapper around smb_read_file
    written_before,     \* the offsets written by the attempts of
                        \* smb_create_file that raised
    chunks,             \* the results of the read_chunk calls completed
                        \* in this attempt of smb_read_file
    wr_turn,            \* parity of the iterations of the write loop
    rd_trees,           \* trees smb_read_file has connected and not
                        \* disconnected
    rd_handles,         \* handles smb_read_file has opened and not closed
    \* ---- get_client_uuid over successive runs ----
    uuid_file,          \* the content of client_uuid.txt, or NoUuidFile
    uuid_touched,       \* TRUE when something else than get_client_uuid
                        \* changed the file since the last call
    uuid_calls,         \* the calls so far: file before, value returned,
                        \* file after
    \* ---- the default branch of one process_task call ----
    ch_task_id,         \* task_id
    ch_pc,              \* "create_file", "read_file", "churn", then
                        \* "returned" or "raised"
    ch_count,           \* the value of random.randint(10, 10000)
    ch_attempt,         \* "attempt" of the wrapper around
                        \* smb_create_random_file
    random_files,       \* the list random_files
    ch_deleted,         \* the paths given to smb_delete_file, in order
    ch_delete_errors,   \* how many smb_delete_file calls logged a failure
    ch_events,          \* the operations of the task so far, in order
    ch_touched,         \* the paths the task has opened or created
    ch_stats,           \* stats
    \* ---- the thread pool of one call of smb_read_file ----
    pool_pc,            \* the calling thread: "submit", "collect", "exit",
                        \* then "closed"
    pool_n,             \* len(offsets)
    pool_submitted,     \* read_chunk calls given to executor.submit
    pool_running,       \* read_chunk calls a worker thread is running
    pool_done,          \* read_chunk calls that have returned
    pool_collected,     \* futures that as_completed has yielded
    \* ---- src/win/smbgen.py: one run_async_session_creation call ----
    gen_count,          \* session_count
    gen_launch_reads,   \* launch_reads
    gen_pc,             \* position of the coroutine, then of the reader
                        \* thread, of each connection
    gen_open,           \* the connection is connected: conn.connect() has
                        \* returned, and the connection has not been
                        \* disconnected or lost since
    gen_attempt,        \* "attempt" of async_create_smb_session_with_retry
    established_connections

mainVars == <<num_smb_sessions, fail_fast, mode, args_block_size, main_pc,
              yielded, task_stats, elapsed, summary>>
taskVars == <<task_pc, conn_open, session_open, tree_open, stats,
              call_failed, dir_error, futures>>
retryVars == <<max_attempts, delay_seconds, retry_pc, attempt, calls,
               sleeps, retry_result>>
foldVars == <<fold_list, fold_perm, fold_elapsed, fold_pc, fold_a, fold_b>>
cfgVars == <<cfg_cli, cfg_loaded, cfg_file, cfg_args, cfg_pc>>
rioVars == <<rio_file_size, rio_block_size, rio_num_ops, rio_read_pct,
             rio_pc, rio_ops, rio_total, rio_attempt,
             rio_transferred>>
churnVars == <<ch_task_id, ch_pc, ch_count, ch_attempt, random_files,
               ch_deleted, ch_delete_errors, ch_events, ch_touched, ch_stats>>
poolVars == <<pool_pc, pool_n, pool_submitted, pool_running, pool_done,
              pool_collected>>
genVars == <<gen_count, gen_launch_reads, gen_pc, gen_open, gen_attempt,
             established_connections>>
uuidVars == <<uuid_file, uuid_touched, uuid_calls>>
fileVars == <<wr_size, wr_block_size, file_pc, writes, total_written,
              end_of_file, file_size, offsets, rd_total_bytes, op_failed,
              wr_attempt, rd_attempt, written_before, chunks, wr_turn,
              rd_trees, rd_handles>>
vars == <<mainVars, taskVars, retryVars, foldVars, cfgVars, rioVars,
         fileVars, uuidVars, churnVars, poolVars, genVars>>

\* What the steps of one specification leave alone.
notRun == <<retryVars, foldVars, cfgVars, rioVars, fileVars, uuidVars,
            churnVars, poolVars, genVars>>
notRetry == <<mainVars, taskVars, foldVars, cfgVars, rioVars, fileVars,
              uuidVars, churnVars, poolVars, genVars>>
notFold == <<mainVars, taskVars, retryVars, cfgVars, rioVars, fileVars,
             uuidVars, churnVars, poolVars, genVars>>
notCfg == <<mainVars, taskVars, retryVars, foldVars, rioVars, fileVars,
            uuidVars, churnVars, poolVars, genVars>>
notRio == <<mainVars, taskVars, retryVars, foldVars, cfgVars, fileVars,
            uuidVars, churnVars, poolVars, genVars>>
notFile == <<mainVars, taskVars, retryVars, foldVars, cfgVars, rioVars,
             uuidVars, churnVars, poolVars, genVars>>
notUuid == <<mainVars, taskVars, retryVars, foldVars, cfgVars, rioVars,
             fileVars, churnVars, poolVars, genVars>>
notChurn == <<mainVars, taskVars, retryVars, foldVars, cfgVars, rioVars,
              fileVars, uuidVars, poolVars, genVars>>
notPool == <<mainVars, taskVars, retryVars, foldVars, cfgVars, rioVars,
             fileVars, uuidVars, churnVars, genVars>>
notGen == <<mainVars, taskVars, retryVars, foldVars, cfgVars, rioVars,
            fileVars, uuidVars, churnVars, poolVars>>

(***************************************************************************)
(* Python dicts are functions from keys; {} is the function with the       *)
(* empty domain.                                                           *)
(***************************************************************************)
EmptyDict == [k \in {} |-> 0]

\* d.get(key, default)
Get(d, key, default) == IF key \in DOMAIN d THEN d[key] ELSE default

\* the truth value of a dict: {} is false
Truthy(d) == DOMAIN d # {}

\* A sum that overwrites its accumulator instead of adding to it.
SumSeq_Overwrite(s) == IF s = <<>> THEN 0 ELSE s[Len(s)]

\* sum(...) of the elements of s, left to right
RECURSIVE SumSeq(_)
SumSeq(s) == IF s = <<>> THEN 0 ELSE Head(s) + SumSeq(Tail(s))

TaskIds == 0 .. (MaxSessions - 1)

\* range(args.num_smb_sessions)
Tasks == 0 .. (num_smb_sessions - 1)

Modes == {"streaming_reads", "read_iops", "streaming_writes", "random_io",
          "default"}

\* infer_mode_label(args)
infer_mode_label(m) ==
    IF m = "default"
    THEN "default (write stream -> read stream -> churn small random files)"
    ELSE m

\* What the read helpers can return as a byte count, and how many random
\* files the churn loop can create.
ByteCounts == {0, IopSize, MiB}
FileCounts == {MinRandomFiles, MaxRandomFiles}

\* A streaming write that reports the bytes it wrote as bytes_read.
WorkloadStats_CountsWritten(m, b, f) ==
    [mode |-> infer_mode_label(m),
     bytes_read |-> IF m = "streaming_writes" THEN MiB ELSE b,
     num_random_files |-> IF m = "default" THEN f ELSE 0]

\* The dict that process_task builds when the workload of mode m moved b
\* bytes and created f random files.
WorkloadStats(m, b, f) ==
    [mode |-> infer_mode_label(m),
     bytes_read |-> IF m = "streaming_writes" THEN 0 ELSE b,
     num_random_files |-> IF m = "default" THEN f ELSE 0]

\* The modes whose branch of process_task calls a function that the
\* module does not define (smb_iops_read).
UndefinedHelper == {"read_iops"}

\* The byte counts and file counts the workload of mode m can produce.
WorkloadBytes(m) ==
    IF m \in UndefinedHelper THEN {}
    ELSE IF m = "streaming_writes" THEN {0} ELSE ByteCounts
WorkloadFiles(m) == IF m = "default" THEN FileCounts ELSE {0}

NoOutcome == [state |-> "pending", value |-> EmptyDict]
Returned(v) == [state |-> "returned", value |-> v]
Raised == [state |-> "raised", value |-> EmptyDict]

\* A handler that logs and re-raises instead of returning {}.
ExceptOutcome_Reraise == Raised

\* The outcome of process_task once an exception has reached its except
\* clause: the exception is logged and {} is returned.
ExceptOutcome == Returned(EmptyDict)

(***************************************************************************)
(* print_summary                                                           *)
(***************************************************************************)
\* A guard that lets a zero elapsed_time through.
ElapsedGuard_NonNegative(elapsed_time) == elapsed_time >= 0

\* The guard of the two divisions by elapsed_time.
ElapsedGuard(elapsed_time) == elapsed_time > 0

\* a / b rounded to the nearest integer, ties to even: what the format
\* ":.2f" prints of a quotient scaled by 100.
RoundDiv(a, b) ==
    LET q == a \div b
        r == a % b
    IN  IF 2 * r < b THEN q
        ELSE IF 2 * r > b THEN q + 1
        ELSE IF q % 2 = 0 THEN q ELSE q + 1

\* The condition of the "Nothing read!" warning.
WarnCondition(total_bytes) == total_bytes = 0

NoSummary ==
    [printed |-> FALSE, raised |-> FALSE, modes |-> {}, total_tasks |-> 0,
     total_files |-> 0, total_bytes |-> 0, elapsed_time |-> 0,
     max_throughput |-> 0, max_iops |-> 0, warning |-> FALSE]

\* print_summary(task_stats_list, elapsed_time).  max_throughput is in
\* hundredths of MB/s, the precision of the printed line.  raised tells
\* that a division by zero was evaluated: ZeroDivisionError leaves the
\* function before anything is printed.
print_summary(task_stats_list, elapsed_time) ==
    LET idx == 1 .. Len(task_stats_list)
        total_tasks == Len(task_stats_list)
        total_bytes ==
            SumSeq([k \in idx |-> Get(task_stats_list[k], "bytes_read", 0)])
        total_files ==
            SumSeq([k \in idx |->
                       Get(task_stats_list[k], "num_random_files", 0)])
        divides == ElapsedGuard(elapsed_time)
        zero_division == divides /\ elapsed_time = 0
        throughput ==
            IF divides /\ ~zero_division
            THEN RoundDiv(total_bytes * 100, MiB * elapsed_time)
            ELSE 0
        max_iops ==
            IF divides /\ ~zero_division
            THEN total_bytes \div (IopSize * elapsed_time)
            ELSE 0
        modes == {Get(task_stats_list[k], "mode", "default") : k \in idx}
    IN  IF zero_division
        THEN [NoSummary EXCEPT !.raised = TRUE]
        ELSE [printed |-> TRUE, raised |-> FALSE, modes |-> modes,
              total_tasks |-> total_tasks, total_files |-> total_files,
              total_bytes |-> total_bytes, elapsed_time |-> elapsed_time,
              max_throughput |-> throughput, max_iops |-> max_iops,
              warning |-> WarnCondition(total_bytes)]

(***************************************************************************)
(* process_task(task_id, args, client_uuid), one action per remote call.   *)
(* Every remote call either returns or raises.  An exception raised inside *)
(* the try block is caught by "except Exception", which logs it and        *)
(* returns: the raising call and the handler are one step of the task.     *)
(***************************************************************************)
Goto(i, label) == task_pc' = [task_pc EXCEPT ![i] = label]

\* The future of task i is set and the locals of process_task are gone.
Finish(i, outcome) ==
    /\ futures' = [futures EXCEPT ![i] = outcome]
    /\ stats' = [stats EXCEPT ![i] = EmptyDict]
    /\ dir_error' = [dir_error EXCEPT ![i] = FALSE]
    /\ Goto(i, "done")

\* except Exception as e: logging.error, traceback.print_exc, return {}
ProcessTaskExcept(i) == Finish(i, ExceptOutcome)

\* A remote call of task i raises: the except clause is entered.
RemoteCallRaises(i) ==
    /\ ProcessTaskExcept(i)
    /\ call_failed' = [call_failed EXCEPT ![i] = TRUE]

\* An executor with a single worker thread, whatever the task count.
MaxWorkers_One == IF num_smb_sessions > 1 THEN 1 ELSE num_smb_sessions

\* max_workers of the executor.
MaxWorkers == num_smb_sessions

\* Task i has a worker thread: the pool starts the submitted tasks in
\* order, each on a thread of its own while fewer than max_workers of the
\* tasks before it are still running.
HasWorker(i) ==
    Cardinality({j \in Tasks : j < i /\ task_pc[j] # "done"}) < MaxWorkers

\* conn.connect()
ConnConnect(i) ==
    /\ task_pc[i] = "conn_connect"
    /\ HasWorker(i)
    /\ \E ok \in BOOLEAN :
          IF ok
          THEN /\ conn_open' = [conn_open EXCEPT ![i] = TRUE]
               /\ Goto(i, "session_connect")
               /\ UNCHANGED <<stats, futures, call_failed, dir_error>>
          ELSE /\ RemoteCallRaises(i)
               /\ UNCHANGED conn_open
    /\ UNCHANGED <<session_open, tree_open>>
    /\ UNCHANGED <<mainVars, notRun>>

\* session.connect()
SessionConnect(i) ==
    /\ task_pc[i] = "session_connect"
    /\ \E ok \in BOOLEAN :
          IF ok
          THEN /\ session_open' = [session_open EXCEPT ![i] = TRUE]
               /\ Goto(i, "tree_connect")
               /\ UNCHANGED <<stats, futures, call_failed, dir_error>>
          ELSE /\ RemoteCallRaises(i)
               /\ UNCHANGED session_open
    /\ UNCHANGED <<conn_open, tree_open>>
    /\ UNCHANGED <<mainVars, notRun>>

\* tree.connect()
TreeConnect(i) ==
    /\ task_pc[i] = "tree_connect"
    /\ \E ok \in BOOLEAN :
          IF ok
          THEN /\ tree_open' = [tree_open EXCEPT ![i] = TRUE]
               /\ Goto(i, "ensure_directory")
               /\ UNCHANGED <<stats, futures, call_failed, dir_error>>
          ELSE /\ RemoteCallRaises(i)
               /\ UNCHANGED tree_open
    /\ UNCHANGED <<conn_open, session_open>>
    /\ UNCHANGED <<mainVars, notRun>>

\* A task that gives up its workload when the directory call failed.
AfterEnsure_SkipsWorkload(ok) ==
    IF ok THEN "workload" ELSE "tree_disconnect"

\* The statement process_task executes after ensure_directory_exists has
\* returned: the function returns normally whether or not the call
\* succeeded.
AfterEnsure(ok) == "workload"

\* ensure_directory_exists(tree, client_dir): an exception of the open or
\* the create is logged inside the function and not raised, so the task
\* goes on to its workload either way.
ensure_directory_exists(i) ==
    /\ task_pc[i] = "ensure_directory"
    /\ \E ok \in BOOLEAN :
          /\ dir_error' = [dir_error EXCEPT ![i] = ~ok]
          /\ Goto(i, AfterEnsure(ok))
    /\ UNCHANGED <<conn_open, session_open, tree_open, stats, futures,
                   call_failed>>
    /\ UNCHANGED <<mainVars, notRun>>

\* The block size the streaming_reads branch stores in args.
StreamingReadBlock == 4 * MiB

\* --block_size, at its default
DefaultBlockSize == MiB

\* args.block_size after the mode branch of a task has started: the
\* streaming_reads branch begins with "args.block_size = 4 * 1024 * 1024",
\* an assignment to the args object that every task was given.
BlockSizeAfter(m, block_size) ==
    IF m = "streaming_reads" THEN StreamingReadBlock ELSE block_size

\* stats = {"mode": ...} and the branch of the selected mode: the workload
\* either raises (a retried helper has used up its attempts) or fills
\* stats["bytes_read"] and stats["num_random_files"].  The read_iops
\* branch calls smb_iops_read, a name that is defined nowhere: evaluating
\* it raises NameError before any remote call is made.
RunWorkload(i) ==
    /\ task_pc[i] = "workload"
    /\ args_block_size' = BlockSizeAfter(mode, args_block_size)
    /\ \/ IF mode \in UndefinedHelper
          THEN ProcessTaskExcept(i) /\ UNCHANGED call_failed
          ELSE RemoteCallRaises(i)
       \/ \E b \in WorkloadBytes(mode), f \in WorkloadFiles(mode) :
             /\ stats' = [stats EXCEPT ![i] = WorkloadStats(mode, b, f)]
             /\ Goto(i, "tree_disconnect")
             /\ UNCHANGED <<futures, call_failed, dir_error>>
    /\ UNCHANGED <<conn_open, session_open, tree_open>>
    /\ UNCHANGED <<num_smb_sessions, fail_fast, mode, main_pc, yielded,
                   task_stats, elapsed, summary>>
    /\ UNCHANGED notRun

\* tree.disconnect()
TreeDisconnect(i) ==
    /\ task_pc[i] = "tree_disconnect"
    /\ \E ok \in BOOLEAN :
          IF ok
          THEN /\ tree_open' = [tree_open EXCEPT ![i] = FALSE]
               /\ Goto(i, "session_disconnect")
               /\ UNCHANGED <<stats, futures, call_failed, dir_error>>
          ELSE /\ RemoteCallRaises(i)
               /\ UNCHANGED tree_open
    /\ UNCHANGED <<conn_open, session_open>>
    /\ UNCHANGED <<mainVars, notRun>>

\* session.disconnect()
SessionDisconnect(i) ==
    /\ task_pc[i] = "session_disconnect"
    /\ \E ok \in BOOLEAN :
          IF ok
          THEN /\ session_open' = [session_open EXCEPT ![i] = FALSE]
               /\ Goto(i, "conn_disconnect")
               /\ UNCHANGED <<stats, futures, call_failed, dir_error>>
          ELSE /\ RemoteCallRaises(i)
               /\ UNCHANGED session_open
    /\ UNCHANGED <<conn_open, tree_open>>
    /\ UNCHANGED <<mainVars, notRun>>

\* conn.disconnect(), then "return stats"
ConnDisconnect(i) ==
    /\ task_pc[i] = "conn_disconnect"
    /\ \E ok \in BOOLEAN :
          IF ok
          THEN /\ conn_open' = [conn_open EXCEPT ![i] = FALSE]
               /\ Finish(i, Returned(stats[i]))
               /\ UNCHANGED call_failed
          ELSE /\ RemoteCallRaises(i)
               /\ UNCHANGED conn_open
    /\ UNCHANGED <<session_open, tree_open>>
    /\ UNCHANGED <<mainVars, notRun>>

process_task(i) ==
    \/ ConnConnect(i)
    \/ SessionConnect(i)
    \/ TreeConnect(i)
    \/ ensure_directory_exists(i)
    \/ RunWorkload(i)
    \/ TreeDisconnect(i)
    \/ SessionDisconnect(i)
    \/ ConnDisconnect(i)

\* The positions of process_task at which the next step is a call to the
\* server.  In a mode whose helper is undefined the workload step raises
\* NameError before any call is sent.
AtRemoteCall(i) ==
    /\ task_pc[i] \notin {"unsubmitted", "done", "hung"}
    /\ task_pc[i] = "workload" => mode \notin UndefinedHelper

\* The remote call task i has sent never returns: the thread of the task
\* stays blocked in it, and keeps its worker.
Hang(i) ==
    /\ AtRemoteCall(i)
    /\ HasWorker(i)
    /\ Goto(i, "hung")
    /\ UNCHANGED <<conn_open, session_open, tree_open, stats, futures,
                   call_failed, dir_error>>
    /\ UNCHANGED <<mainVars, notRun>>

(***************************************************************************)
(* __main__: the scheduler loop.                                           *)
(***************************************************************************)
\* ThreadPoolExecutor(max_workers=N) raises ValueError unless N > 0;
\* otherwise every process_task(i, ...) is submitted, each on its own worker.
Submit ==
    /\ main_pc = "start"
    /\ IF num_smb_sessions <= 0
       THEN /\ main_pc' = "crashed"
            /\ UNCHANGED task_pc
       ELSE /\ main_pc' = "as_completed"
            /\ task_pc' = [i \in TaskIds |->
                             IF i \in Tasks THEN "conn_connect"
                             ELSE task_pc[i]]
    /\ UNCHANGED <<num_smb_sessions, fail_fast, mode, args_block_size,
                   yielded, task_stats, elapsed, summary>>
    /\ UNCHANGED <<conn_open, session_open, tree_open, stats, futures,
                   call_failed, dir_error>>
    /\ UNCHANGED notRun

\* The futures as_completed has already yielded.
YieldedSet == {yielded[k] : k \in 1 .. Len(yielded)}

\* One iteration of "for f in as_completed(futures)": as_completed yields
\* a finished future; f.result() returns the task's value or raises the
\* task's exception.
AsCompleted(i) ==
    /\ main_pc = "as_completed"
    /\ i \in Tasks \ YieldedSet
    /\ futures[i].state # "pending"
    /\ yielded' = Append(yielded, i)
    /\ IF futures[i].state = "returned"
       THEN /\ task_stats' = IF Truthy(futures[i].value)
                             THEN Append(task_stats, futures[i].value)
                             ELSE task_stats
            /\ UNCHANGED main_pc
       ELSE /\ main_pc' = IF fail_fast THEN "break" ELSE "as_completed"
            /\ UNCHANGED task_stats
    /\ UNCHANGED <<num_smb_sessions, fail_fast, mode, args_block_size,
                   elapsed, summary>>
    /\ UNCHANGED <<taskVars, notRun>>

\* The loop is over (every future was yielded, or break); leaving the
\* with-block calls executor.shutdown(wait=True), which returns when every
\* submitted task has finished.  Then elapsed = time.time() - start; the
\* wall clock has a finite resolution, so the difference can be 0.
ExitWith ==
    /\ \/ main_pc = "break"
       \/ main_pc = "as_completed" /\ YieldedSet = Tasks
    /\ \A i \in Tasks : task_pc[i] = "done"
    /\ \E e \in 0 .. MaxElapsed : elapsed' = e
    /\ main_pc' = "print_summary"
    /\ UNCHANGED <<num_smb_sessions, fail_fast, mode, args_block_size,
                   yielded, task_stats, summary>>
    /\ UNCHANGED <<taskVars, notRun>>

\* print_summary(task_stats, elapsed)
PrintSummary ==
    /\ main_pc = "print_summary"
    /\ summary' = print_summary(task_stats, elapsed)
    /\ main_pc' = IF summary'.raised THEN "crashed" ELSE "done"
    /\ UNCHANGED <<num_smb_sessions, fail_fast, mode, args_block_size,
                   yielded, task_stats, elapsed>>
    /\ UNCHANGED <<taskVars, notRun>>

(***************************************************************************)
(* retry_operation(max_attempts, delay_seconds): one call of wrapper.      *)
(***************************************************************************)
\* The values func can return.
Values == {"None", "value"}

NoResult == [kind |-> "running", value |-> "None", exc |-> 0]

\* A wrapper that calls func without returning its value.
WrapperReturn_Dropped(v) == [kind |-> "returned", value |-> "None", exc |-> 0]

\* "return func(...)": wrapper returns what the call returned.
WrapperReturn(v) == [kind |-> "returned", value |-> v, exc |-> 0]

\* "raise" in the handler of call number n: that call's exception leaves
\* wrapper.
WrapperRaise(n) == [kind |-> "raised", value |-> "None", exc |-> n]

\* The comparison off by one: the last attempt sleeps instead of raising.
RetryAgain_OffByOne(a, k) == a < k

\* "if attempt < max_attempts - 1": sleep and try again, else re-raise.
RetryAgain(a, k) == a < k - 1

\* for attempt in range(max_attempts): the next iteration, or the end of
\* the loop, after which wrapper returns None.
RetryLoop ==
    /\ retry_pc = "for"
    /\ IF attempt < max_attempts
       THEN /\ retry_pc' = "try"
            /\ UNCHANGED retry_result
       ELSE /\ retry_pc' = "done"
            /\ retry_result' = WrapperReturn("None")
    /\ UNCHANGED <<max_attempts, delay_seconds, attempt, calls, sleeps>>
    /\ UNCHANGED notRetry

\* return func(*args, **kwargs): the call returns a value, which wrapper
\* returns, or it raises.
RetryTry ==
    /\ retry_pc = "try"
    /\ \/ \E v \in Values :
             /\ calls' = Append(calls, [kind |-> "returned", value |-> v])
             /\ retry_result' = WrapperReturn(v)
             /\ retry_pc' = "done"
       \/ /\ calls' = Append(calls, [kind |-> "raised", value |-> "None"])
          /\ retry_pc' = "except"
          /\ UNCHANGED retry_result
    /\ UNCHANGED <<max_attempts, delay_seconds, attempt, sleeps>>
    /\ UNCHANGED notRetry

\* A delay that grows with the attempt number.
SleepDelay_Growing(delay, n) == delay * (n + 1)

\* The argument of time.sleep in the except clause of attempt n
SleepDelay(delay, n) == delay

\* except Exception as e: time.sleep(delay_seconds) and the next
\* iteration, or re-raise e, the exception of the call just made.
RetryExcept ==
    /\ retry_pc = "except"
    /\ IF RetryAgain(attempt, max_attempts)
       THEN /\ sleeps' = Append(sleeps, SleepDelay(delay_seconds, attempt))
            /\ attempt' = attempt + 1
            /\ retry_pc' = "for"
            /\ UNCHANGED retry_result
       ELSE /\ retry_result' = WrapperRaise(Len(calls))
            /\ retry_pc' = "done"
            /\ UNCHANGED <<sleeps, attempt>>
    /\ UNCHANGED <<max_attempts, delay_seconds, calls>>
    /\ UNCHANGED notRetry

(***************************************************************************)
(* print_summary as a function of the list it is given: the list and a     *)
(* permutation of it, reached by swaps of neighbours, are both folded.     *)
(***************************************************************************)
\* Results that process_task returns and the fan-in appends.
SummaryInputs ==
    {WorkloadStats("default", MiB, MinRandomFiles),
     WorkloadStats("default", IopSize, MaxRandomFiles),
     WorkloadStats("streaming_writes", 0, 0),
     WorkloadStats("streaming_reads", MiB, 0)}

ResultLists ==
    UNION {[1 .. n -> SummaryInputs] : n \in 0 .. MaxResults}

\* The list l with its elements k and k + 1 exchanged.
SwapAt(l, k) ==
    [j \in 1 .. Len(l) |->
        IF j = k THEN l[k + 1] ELSE IF j = k + 1 THEN l[k] ELSE l[j]]

FoldSwap ==
    /\ fold_pc = "permute"
    /\ \E k \in 1 .. (Len(fold_perm) - 1) :
          /\ fold_perm[k] # fold_perm[k + 1]
          /\ fold_perm' = SwapAt(fold_perm, k)
    /\ UNCHANGED <<fold_list, fold_elapsed, fold_pc, fold_a, fold_b>>
    /\ UNCHANGED notFold

FoldBoth ==
    /\ fold_pc = "permute"
    /\ fold_a' = print_summary(fold_list, fold_elapsed)
    /\ fold_b' = print_summary(fold_perm, fold_elapsed)
    /\ fold_pc' = "done"
    /\ UNCHANGED <<fold_list, fold_perm, fold_elapsed>>
    /\ UNCHANGED notFold

(***************************************************************************)
(* The resolution of the configuration: parser.parse_args(),               *)
(* merge_args_with_config(args) and the check of max_random_io_readpct.    *)
(* A value is a tagged record, so that None, booleans and integers can be  *)
(* compared; "unset" and "absent" stand for an option the command line     *)
(* does not give and for a key the config file does not have.              *)
(***************************************************************************)
IntVal(n) == [t |-> "int", i |-> n, b |-> FALSE]
BoolVal(x) == [t |-> "bool", i |-> 0, b |-> x]
NoneVal == [t |-> "none", i |-> 0, b |-> FALSE]
Unset == [t |-> "unset", i |-> 0, b |-> FALSE]
Absent == [t |-> "absent", i |-> 0, b |-> FALSE]

\* The four flags of mode_group, in the order of their declaration.
ModeFlags == {"mode_streaming_reads", "mode_read_iops",
              "mode_streaming_writes", "mode_random_io"}

ConfigKeys == {"num_smb_sessions", "max_random_io_readpct"} \cup ModeFlags

\* parser.get_default(key)
get_default(k) ==
    IF k = "num_smb_sessions" THEN IntVal(1)
    ELSE IF k = "max_random_io_readpct" THEN NoneVal
    ELSE BoolVal(FALSE)

\* bool(v) for the values of the model
IsTrue(v) ==
    \/ v.t = "bool" /\ v.b
    \/ v.t = "int" /\ v.i # 0

\* The command lines of the model: --num_smb_sessions absent, 1 or 2, at
\* most one flag of the mutually exclusive mode group, and
\* --max_random_io_readpct absent or an integer (type=int takes any).
CommandLines ==
    {[k \in ConfigKeys |->
         IF k = "num_smb_sessions" THEN n
         ELSE IF k = "max_random_io_readpct" THEN r
         ELSE IF k = m THEN BoolVal(TRUE) ELSE Unset] :
       n \in {Unset, IntVal(1), IntVal(2)},
       m \in ModeFlags \cup {"none"},
       r \in {Unset, IntVal(0), IntVal(100), IntVal(150)}}

\* The config files of the model: any JSON object over the keys.
ConfigFiles ==
    {[k \in ConfigKeys |->
         IF k = "num_smb_sessions" THEN n
         ELSE IF k = "max_random_io_readpct" THEN r
         ELSE f[k]] :
       n \in {Absent, IntVal(1), IntVal(2)},
       r \in {Absent, IntVal(50), IntVal(150)},
       f \in [ModeFlags -> {Absent, BoolVal(TRUE), BoolVal(FALSE)}]}

NoFile == [k \in ConfigKeys |-> Absent]

\* The body of the loop of merge_args_with_config for one key of the file:
\* a boolean that is False takes the file's value; any other value takes
\* it when it equals the option's default.
MergeValue(k, cli_value, file_value) ==
    IF cli_value.t = "bool"
    THEN IF cli_value.b = FALSE THEN file_value ELSE cli_value
    ELSE IF cli_value = get_default(k) THEN file_value ELSE cli_value

\* merge_args_with_config(args)
merge_args_with_config(args, loaded, file) ==
    IF ~loaded THEN args
    ELSE [k \in ConfigKeys |->
             IF file[k] # Absent THEN MergeValue(k, args[k], file[k])
             ELSE args[k]]

\* The mode of the first flag of order that is true in args, "default"
\* when none is: a chain of "if args.<flag>" tests.
RECURSIVE FirstTrue(_, _)
FirstTrue(args, order) ==
    IF order = <<>> THEN "default"
    ELSE IF IsTrue(args["mode_" \o Head(order)]) THEN Head(order)
    ELSE FirstTrue(args, Tail(order))

\* The order in which infer_mode_label tests the flags.
LabelOrder ==
    <<"streaming_reads", "read_iops", "streaming_writes", "random_io">>

\* A dispatch that tests the write modes before the read modes.
DispatchOrder_WritesFirst ==
    <<"streaming_writes", "random_io", "streaming_reads", "read_iops">>

\* The order in which the if/elif chain of process_task tests the flags.
DispatchOrder ==
    <<"streaming_reads", "read_iops", "streaming_writes", "random_io">>

\* args = parser.parse_args(): an option that is not given has its default
ParseArgs ==
    /\ cfg_pc = "parse"
    /\ cfg_args' = [k \in ConfigKeys |->
                       IF cfg_cli[k] = Unset THEN get_default(k)
                       ELSE cfg_cli[k]]
    /\ cfg_pc' = "merge"
    /\ UNCHANGED <<cfg_cli, cfg_loaded, cfg_file>>
    /\ UNCHANGED notCfg

\* args = merge_args_with_config(args)
MergeArgs ==
    /\ cfg_pc = "merge"
    /\ cfg_args' = merge_args_with_config(cfg_args, cfg_loaded, cfg_file)
    /\ cfg_pc' = "validate"
    /\ UNCHANGED <<cfg_cli, cfg_loaded, cfg_file>>
    /\ UNCHANGED notCfg

\* if args.mode_random_io and args.max_random_io_readpct is None:
\*     parser.error(...)
\* otherwise the run goes on to dispatch its tasks.
ValidateArgs ==
    /\ cfg_pc = "validate"
    /\ cfg_pc' = IF IsTrue(cfg_args["mode_random_io"])
                     /\ cfg_args["max_random_io_readpct"] = NoneVal
                  THEN "rejected"
                  ELSE "accepted"
    /\ UNCHANGED <<cfg_cli, cfg_loaded, cfg_file, cfg_args>>
    /\ UNCHANGED notCfg

(***************************************************************************)
(* The file sizes and block sizes of the model.                            *)
(***************************************************************************)
\* args.max_file_size * 1024**2
FileSizes == {k * MiB : k \in 0 .. MaxFileSize}

\* args.block_size: three quarters of a MiB, the default of 1 MiB, 2 MiB
BlockSizes == {3 * (MiB \div 4), MiB, 2 * MiB}

\* @retry_operation(max_attempts=5, delay_seconds=2), on smb_create_file,
\* smb_random_io and smb_read_file
FileAttempts == 5

Max(a, b) == IF a >= b THEN a ELSE b
Min(a, b) == IF a <= b THEN a ELSE b

(***************************************************************************)
(* smb_random_io(session, server_ip, share_name, remote_file_path,         *)
(* file_size, block_size, num_ops, read_pct) under                         *)
(* @retry_operation(max_attempts=5, delay_seconds=2).                      *)
(***************************************************************************)
\* floor(100 * random.random()) for the samples of the model; random()
\* is in [0, 1).
RandomSamples == {0, 49, 50, 99}

\* A sample that counts as a read also when it equals the percentage.
IsRead_Inclusive(r, read_pct) == r <= read_pct

\* "random.random() < read_ratio" with read_ratio = read_pct / 100.0, for
\* the sample whose floor of 100 * random() is r.
IsRead(r, read_pct) == r < read_pct

\* random.randint(0, max(0, file_size - block_size)): the two ends.
RioOffsets(size, block_size) == {0, Max(0, size - block_size)}

\* len(data) of a read that returns: a full block or a short one.
ReadLengths(block_size) == {block_size, block_size \div 2}

RioOp(kind, offset, length, ok) ==
    [kind |-> kind, offset |-> offset, length |-> length, ok |-> ok]

\* A read whose exception leaves the function like that of a write.
AfterRead_Raises(ok) == IF ok THEN "loop" ELSE "except"

\* Where the loop is after file.read: "except Exception: continue" keeps
\* it in the loop whether the read returned or raised.
AfterRead(ok) == IF ok THEN "loop" ELSE "loop"

rioArgs == <<rio_file_size, rio_block_size, rio_num_ops, rio_read_pct>>

\* tree.connect(), file.create() and total_bytes = 0: tree.connect and
\* file.create can raise.
RioOpen ==
    /\ rio_pc = "open"
    /\ \E ok \in BOOLEAN : rio_pc' = IF ok THEN "loop" ELSE "except"
    /\ rio_ops' = <<>>
    /\ rio_total' = 0
    /\ UNCHANGED <<rioArgs, rio_attempt, rio_transferred>>
    /\ UNCHANGED notRio

\* One iteration of "for _ in range(num_ops)": a read, whose failure is
\* skipped with "continue", or a write, whose failure leaves the function
\* with the file and the tree as they are.
RioIteration ==
    /\ rio_pc = "loop"
    /\ Len(rio_ops) < rio_num_ops
    /\ \E offset \in RioOffsets(rio_file_size, rio_block_size),
          r \in RandomSamples, ok \in BOOLEAN :
          IF IsRead(r, rio_read_pct)
          THEN \E n \in ReadLengths(rio_block_size) :
                  /\ rio_ops' = Append(rio_ops,
                         RioOp("read", offset, IF ok THEN n ELSE 0, ok))
                  /\ rio_total' = IF ok THEN rio_total + n ELSE rio_total
                  /\ rio_transferred' = IF ok THEN rio_transferred + n
                                        ELSE rio_transferred
                  /\ rio_pc' = AfterRead(ok)
          ELSE /\ rio_ops' = Append(rio_ops,
                      RioOp("write", offset,
                            IF ok THEN rio_block_size ELSE 0, ok))
               /\ rio_total' = IF ok THEN rio_total + rio_block_size
                                ELSE rio_total
               /\ rio_transferred' =
                      IF ok THEN rio_transferred + rio_block_size
                      ELSE rio_transferred
               /\ rio_pc' = IF ok THEN "loop" ELSE "except"
    /\ UNCHANGED <<rioArgs, rio_attempt>>
    /\ UNCHANGED notRio

\* file.flush(), file.close(), tree.disconnect(), return total_bytes
RioClose ==
    /\ rio_pc = "loop"
    /\ Len(rio_ops) = rio_num_ops
    /\ \E ok \in BOOLEAN : rio_pc' = IF ok THEN "returned" ELSE "except"
    /\ UNCHANGED <<rioArgs, rio_ops, rio_total, rio_attempt,
                   rio_transferred>>
    /\ UNCHANGED notRio

\* The except clause of the wrapper: sleep and call smb_random_io again,
\* whose locals start afresh, or raise after the last attempt.
RioExcept ==
    /\ rio_pc = "except"
    /\ IF rio_attempt < FileAttempts - 1
       THEN /\ rio_attempt' = rio_attempt + 1
            /\ rio_pc' = "open"
            /\ rio_ops' = <<>>
            /\ rio_total' = 0
       ELSE /\ rio_pc' = "raised"
            /\ UNCHANGED <<rio_attempt, rio_ops, rio_total>>
    /\ UNCHANGED <<rioArgs, rio_transferred>>
    /\ UNCHANGED notRio

(***************************************************************************)
(* smb_create_file(tree, remote_file_path, size, block_size) followed by   *)
(* smb_read_file(session, server_ip, share_name, remote_file_path,         *)
(* block_size), as the default mode calls them.                            *)
(***************************************************************************)
\* A write loop that always sends a whole block.
ToWrite_Untruncated(block_size, size, written) == block_size

\* to_write = min(block_size, size - total_written)
ToWrite(block_size, size, written) == Min(block_size, size - written)

MAX_SMB_READ_SIZE == MiB

\* block_size = min(block_size, MAX_SMB_READ_SIZE)
ReadBlockSize(block_size) == Min(block_size, MAX_SMB_READ_SIZE)

\* A range that stops one block short of the end of the file.
ReadOffsets_DropLast(size, block_size) ==
    {k * block_size : k \in {j \in 0 .. (size \div block_size) :
                                 (j + 1) * block_size < size}}

\* range(0, file_size, block_size)
ReadOffsets(size, block_size) ==
    {k * block_size : k \in {j \in 0 .. (size \div block_size) :
                                 j * block_size < size}}

\* len(file.read(offset, block_size)) of a read that returns: the bytes
\* the file holds from offset on, at most block_size.
ChunkLength(offset, block_size, eof) ==
    Max(0, Min(block_size, eof - offset))

\* A read that returns a full block whatever the file holds.
ChunkResult_FullBlock(offset, block_size, eof) ==
    [offset |-> offset, length |-> block_size, ok |-> TRUE]

\* The result of read_chunk(offset) when the read returns.
ChunkResult(offset, block_size, eof) ==
    [offset |-> offset, length |-> ChunkLength(offset, block_size, eof),
     ok |-> TRUE]

\* read_chunk(offset) when the read raises: "except Exception: return 0"
ChunkFailed(offset) == [offset |-> offset, length |-> 0, ok |-> FALSE]

WriteOffsets == {writes[n].offset : n \in 1 .. Len(writes)}

\* An attempt of smb_create_file raises: the wrapper sleeps and calls the
\* whole function again, or re-raises when it was the last attempt (the
\* except clause of process_task then ends the task).
CreateRaise ==
    /\ op_failed' = TRUE
    /\ IF wr_attempt < FileAttempts - 1
       THEN /\ wr_attempt' = wr_attempt + 1
            /\ file_pc' = "create"
            /\ writes' = <<>>
            /\ total_written' = 0
            /\ written_before' = written_before \cup WriteOffsets
       ELSE /\ file_pc' = "raised"
            /\ UNCHANGED <<wr_attempt, writes, total_written,
                           written_before>>

\* An attempt of smb_read_file raises: as above.
ReadRaise ==
    /\ op_failed' = TRUE
    /\ IF rd_attempt < FileAttempts - 1
       THEN /\ rd_attempt' = rd_attempt + 1
            /\ file_pc' = "written"
            /\ offsets' = {}
            /\ chunks' = {}
            /\ rd_total_bytes' = 0
       ELSE /\ file_pc' = "raised"
            /\ UNCHANGED <<rd_attempt, offsets, chunks, rd_total_bytes>>

readLocals == <<rd_attempt, file_size, offsets, chunks, rd_total_bytes,
                rd_trees, rd_handles>>
writeLocals == <<wr_attempt, writes, total_written, written_before,
                 wr_turn>>

\* file.create() with FILE_OVERWRITE_IF: the remote file is emptied
CreateOpen ==
    /\ file_pc = "create"
    /\ \/ /\ file_pc' = "write"
          /\ end_of_file' = 0
          /\ UNCHANGED <<wr_attempt, writes, total_written,
                         written_before, op_failed>>
       \/ /\ CreateRaise
          /\ UNCHANGED end_of_file
    /\ UNCHANGED <<wr_size, wr_block_size, wr_turn, readLocals>>
    /\ UNCHANGED notFile

\* The bytes the server stores of a write of n bytes: all of them, or
\* fewer, which the count that file.write returns tells.
StoredLengths(n) == {n, n \div 2}

\* One iteration of "while total_written < size": the count that
\* file.write returns is dropped, and total_written grows by to_write.
CreateWrite ==
    /\ file_pc = "write"
    /\ total_written < wr_size
    /\ LET to_write == ToWrite(wr_block_size, wr_size, total_written)
       IN  \/ /\ writes' = IF Len(writes) < MaxWrites
                            THEN Append(writes,
                                        [offset |-> total_written,
                                         length |-> to_write])
                            ELSE writes
              /\ \E stored \in StoredLengths(to_write) :
                    /\ end_of_file' =
                           Max(end_of_file, total_written + stored)
                    /\ op_failed' = (op_failed \/ stored < to_write)
              /\ total_written' = total_written + to_write
              /\ wr_turn' = 1 - wr_turn
              /\ UNCHANGED <<wr_attempt, file_pc, written_before>>
           \/ /\ CreateRaise
              /\ UNCHANGED <<end_of_file, wr_turn>>
    /\ UNCHANGED <<wr_size, wr_block_size, readLocals>>
    /\ UNCHANGED notFile

\* The loop has ended: file.flush(), file.close(), time.sleep(1)
CreateClose ==
    /\ file_pc = "write"
    /\ ~(total_written < wr_size)
    /\ \/ /\ file_pc' = "written"
          /\ UNCHANGED <<wr_attempt, writes, total_written,
                         written_before, op_failed>>
       \/ CreateRaise
    /\ UNCHANGED <<wr_size, wr_block_size, wr_turn, end_of_file,
                   readLocals>>
    /\ UNCHANGED notFile

\* tree.connect(), file.create(), file_size = file.end_of_file and the
\* submission of one read_chunk per offset. tree.connect and file.create
\* are before the try: when file.create raises the tree stays connected.
\* range(0, file_size, 0) raises inside the try, and the finally clause
\* closes what was opened.
ReadOpen ==
    /\ file_pc = "written"
    /\ \/ /\ ReadBlockSize(wr_block_size) > 0
          /\ file_pc' = "read"
          /\ file_size' = end_of_file
          /\ offsets' = ReadOffsets(end_of_file,
                                    ReadBlockSize(wr_block_size))
          /\ rd_trees' = rd_trees + 1
          /\ rd_handles' = rd_handles + 1
          /\ UNCHANGED <<rd_attempt, chunks, rd_total_bytes, op_failed>>
       \/ /\ ReadBlockSize(wr_block_size) = 0
          /\ ReadRaise
          /\ UNCHANGED <<file_size, rd_trees, rd_handles>>
       \/ /\ ReadRaise
          /\ \E connected \in BOOLEAN :
                rd_trees' = IF connected THEN rd_trees + 1 ELSE rd_trees
          /\ UNCHANGED <<file_size, rd_handles>>
    /\ UNCHANGED <<wr_size, wr_block_size, writeLocals, end_of_file>>
    /\ UNCHANGED notFile

\* read_chunk(offset) of any chunk still to read, added to total_bytes as
\* it completes; a read that raises counts 0 bytes.
ReadChunk ==
    /\ file_pc = "read"
    /\ \E offset \in offsets :
          /\ offsets' = offsets \ {offset}
          /\ \E c \in {ChunkResult(offset, ReadBlockSize(wr_block_size),
                                   end_of_file),
                       ChunkFailed(offset)} :
                /\ chunks' = chunks \cup {c}
                /\ rd_total_bytes' = rd_total_bytes + c.length
                /\ op_failed' = (op_failed \/ ~c.ok)
    /\ UNCHANGED <<wr_size, wr_block_size, writeLocals, rd_attempt,
                   file_pc, end_of_file, file_size, rd_trees, rd_handles>>
    /\ UNCHANGED notFile

\* finally: file.close(), tree.disconnect(); return total_bytes. When
\* file.close raises, tree.disconnect is not reached.
ReadClose ==
    /\ file_pc = "read"
    /\ offsets = {}
    /\ \/ /\ file_pc' = "returned"
          /\ rd_handles' = rd_handles - 1
          /\ rd_trees' = rd_trees - 1
          /\ UNCHANGED <<rd_attempt, offsets, chunks, rd_total_bytes,
                         op_failed>>
       \/ /\ ReadRaise
          /\ \E closed \in BOOLEAN :
                rd_handles' = IF closed THEN rd_handles - 1
                              ELSE rd_handles
          /\ UNCHANGED rd_trees
    /\ UNCHANGED <<wr_size, wr_block_size, writeLocals, end_of_file,
                   file_size>>
    /\ UNCHANGED notFile

(***************************************************************************)
(* get_client_uuid(): texts are sequences of characters.                   *)
(***************************************************************************)
\* os.path.exists(uuid_file) is false: a value that is no text of the model
NoUuidFile == <<"no file">>
Whitespace == {" "}

\* str(uuid.uuid4()): a text without whitespace
Uuids == {<<"a">>, <<"b">>}

\* What client_uuid.txt can hold when a run starts.
UuidFileTexts == {<<>>, <<" ">>, <<"a">>, <<"b">>, <<" ", "a">>, <<"a", " ">>,
                  <<" ", " ">>}

RECURSIVE LStrip(_)
LStrip(t) ==
    IF t # <<>> /\ Head(t) \in Whitespace THEN LStrip(Tail(t)) ELSE t

RECURSIVE RStrip(_)
RStrip(t) ==
    IF t # <<>> /\ t[Len(t)] \in Whitespace
    THEN RStrip(SubSeq(t, 1, Len(t) - 1)) ELSE t

\* f.read().strip()
Strip(t) == RStrip(LStrip(t))

\* A test that never finds a stored identity.
HasStoredUuid_Never(file) == FALSE

\* os.path.exists(uuid_file) and the stripped content is not empty
HasStoredUuid(file) == file # NoUuidFile /\ Strip(file) # <<>>

\* One call: the stored identity if there is one, else new_uuid, which is
\* written to the file.
get_client_uuid(file, new_uuid) ==
    IF HasStoredUuid(file)
    THEN [returned |-> Strip(file), file |-> file]
    ELSE [returned |-> new_uuid, file |-> new_uuid]

\* A run calls get_client_uuid once, before it starts its tasks.
GetClientUuid ==
    /\ Len(uuid_calls) < MaxCalls
    /\ \E new_uuid \in Uuids :
          LET r == get_client_uuid(uuid_file, new_uuid)
          IN  /\ uuid_file' = r.file
              /\ uuid_calls' = Append(uuid_calls,
                     [before |-> uuid_file, returned |-> r.returned,
                      after |-> r.file, touched |-> uuid_touched])
    /\ uuid_touched' = FALSE
    /\ UNCHANGED notUuid

\* Between two runs the file is removed, emptied or replaced by hand.
UuidFileTouched ==
    /\ Len(uuid_calls) < MaxCalls
    /\ \E f \in {NoUuidFile} \cup UuidFileTexts :
          /\ f # uuid_file
          /\ uuid_file' = f
    /\ uuid_touched' = TRUE
    /\ UNCHANGED uuid_calls
    /\ UNCHANGED notUuid

(***************************************************************************)
(* The default branch of process_task(task_id, args, client_uuid): the     *)
(* working file is written and read, then placeholder files are created    *)
(* and deleted.                                                            *)
(***************************************************************************)
\* client_dir = client_uuid
ClientDir == "uuid"

\* f"{client_dir}\\smb_tempest.{task_id}"
WorkingFile(client_dir, task_id) ==
    client_dir \o "\\" \o "smb_tempest." \o ToString(task_id)

\* A placeholder name without the task index.
RandomFile_NoTaskId(client_dir, seq, task_id) ==
    client_dir \o "\\" \o ToString(seq) \o "_randomfile"

\* f"{client_dir}\\{seq}_randomfile.{task_id}"
RandomFile(client_dir, seq, task_id) ==
    client_dir \o "\\" \o ToString(seq) \o "_randomfile."
        \o ToString(task_id)

\* random.randint(10, 10000), up to the bound of the model
RandomFileCounts == MinRandomFiles .. (MinRandomFiles + MaxExtraFiles)

\* A delete loop that starts as soon as one file exists.
DeleteMayStart_Eager(created, count) == created > 0

\* "for random_file in random_files" is entered when
\* "for seq in range(count)" has ended.
DeleteMayStart(created, count) == created = count

\* A delete whose failure is raised to process_task.
AfterDelete_Escalates(ok) == IF ok THEN "churn" ELSE "raised"

\* smb_delete_file catches every exception and logs a warning: the loop
\* goes on either way.
AfterDelete(ok) == "churn"

\* smb_create_file(tree, remote_file_path, ...): returns, or raises when
\* its attempts are used up
ChurnCreateFile ==
    /\ ch_pc = "create_file"
    /\ ch_touched' = ch_touched
                        \cup {WorkingFile(ClientDir, ch_task_id)}
    /\ \/ /\ ch_pc' = "read_file"
          /\ ch_events' = Append(ch_events, "write")
       \/ /\ ch_pc' = "raised"
          /\ UNCHANGED ch_events
    /\ UNCHANGED <<ch_task_id, ch_count, ch_attempt, random_files,
                   ch_deleted, ch_delete_errors, ch_stats>>
    /\ UNCHANGED notChurn

\* stats["bytes_read"] = smb_read_file(...), random_files = [] and the
\* draw of random.randint(10, 10000)
ChurnReadFile ==
    /\ ch_pc = "read_file"
    /\ ch_touched' = ch_touched
                        \cup {WorkingFile(ClientDir, ch_task_id)}
    /\ \/ \E b \in ByteCounts, c \in RandomFileCounts :
             /\ ch_pc' = "churn"
             /\ ch_stats' = [mode |-> infer_mode_label("default"),
                             bytes_read |-> b]
             /\ ch_count' = c
             /\ ch_events' = Append(ch_events, "read")
       \/ /\ ch_pc' = "raised"
          /\ UNCHANGED <<ch_stats, ch_count, ch_events>>
    /\ UNCHANGED <<ch_task_id, ch_attempt, random_files, ch_deleted,
                   ch_delete_errors>>
    /\ UNCHANGED notChurn

\* One attempt of smb_create_random_file(tree, random_file) in
\* "for seq in range(count)"; after a success the path is appended.
ChurnCreateRandom ==
    /\ ch_pc = "churn"
    /\ Len(random_files) < ch_count
    /\ LET random_file ==
               RandomFile(ClientDir, Len(random_files), ch_task_id)
       IN  /\ ch_touched' = ch_touched \cup {random_file}
           /\ \/ /\ random_files' = Append(random_files, random_file)
                 /\ ch_events' = Append(ch_events, "create")
                 /\ ch_attempt' = 0
                 /\ UNCHANGED ch_pc
              \/ /\ IF ch_attempt < FileAttempts - 1
                    THEN /\ ch_attempt' = ch_attempt + 1
                         /\ UNCHANGED ch_pc
                    ELSE /\ ch_pc' = "raised"
                         /\ UNCHANGED ch_attempt
                 /\ UNCHANGED <<random_files, ch_events>>
    /\ UNCHANGED <<ch_task_id, ch_count, ch_deleted, ch_delete_errors,
                   ch_stats>>
    /\ UNCHANGED notChurn

\* smb_delete_file(session, server_ip, share_name, random_file) in
\* "for random_file in random_files"
ChurnDelete ==
    /\ ch_pc = "churn"
    /\ DeleteMayStart(Len(random_files), ch_count)
    /\ Len(ch_deleted) < Len(random_files)
    /\ \E ok \in BOOLEAN :
          /\ ch_deleted' = Append(ch_deleted,
                                  random_files[Len(ch_deleted) + 1])
          /\ ch_delete_errors' = ch_delete_errors + (IF ok THEN 0 ELSE 1)
          /\ ch_events' = Append(ch_events, "delete")
          /\ ch_pc' = AfterDelete(ok)
    /\ UNCHANGED <<ch_task_id, ch_count, ch_attempt, random_files,
                   ch_touched, ch_stats>>
    /\ UNCHANGED notChurn

\* stats["num_random_files"] = len(random_files)
ChurnCount ==
    /\ ch_pc = "churn"
    /\ Len(random_files) = ch_count
    /\ Len(ch_deleted) = Len(random_files)
    /\ ch_stats' = WorkloadStats("default", ch_stats.bytes_read,
                                 Len(random_files))
    /\ ch_pc' = "returned"
    /\ UNCHANGED <<ch_task_id, ch_count, ch_attempt, random_files,
                   ch_deleted, ch_delete_errors, ch_events, ch_touched>>
    /\ UNCHANGED notChurn

(***************************************************************************)
(* The executor of smb_read_file: "with ThreadPoolExecutor(max_workers=8)  *)
(* as executor", one future per offset, counted rather than named.         *)
(***************************************************************************)
\* The read_chunk calls submitted that no worker thread has taken yet.
PoolQueued == pool_submitted - pool_running - pool_done

\* A pool that gives every submitted call a thread of its own.
CanStart_Always(running) == running >= 0

\* A call leaves the queue when one of the max_workers threads is free.
CanStart(running) == running < ReadWorkers

\* executor.submit(read_chunk, offset) for the next offset; a submit that
\* raises leaves the with block.
PoolSubmit ==
    /\ pool_pc = "submit"
    /\ pool_submitted < pool_n
    /\ \/ /\ pool_submitted' = pool_submitted + 1
          /\ UNCHANGED pool_pc
       \/ /\ pool_pc' = "exit"
          /\ UNCHANGED pool_submitted
    /\ UNCHANGED <<pool_n, pool_running, pool_done, pool_collected>>
    /\ UNCHANGED notPool

\* A worker thread takes a call from the queue.
PoolStart ==
    /\ PoolQueued > 0
    /\ CanStart(pool_running)
    /\ pool_running' = pool_running + 1
    /\ UNCHANGED <<pool_pc, pool_n, pool_submitted, pool_done,
                   pool_collected>>
    /\ UNCHANGED notPool

\* read_chunk returns in its worker thread (it catches every exception).
PoolFinish ==
    /\ pool_running > 0
    /\ pool_running' = pool_running - 1
    /\ pool_done' = pool_done + 1
    /\ UNCHANGED <<pool_pc, pool_n, pool_submitted, pool_collected>>
    /\ UNCHANGED notPool

\* "for future in as_completed(futures): total_bytes += future.result()":
\* the loop takes a future that is done, and ends after the last one.
PoolCollect ==
    /\ \/ pool_pc = "submit" /\ pool_submitted = pool_n
       \/ pool_pc = "collect"
    /\ IF pool_collected < pool_n
       THEN /\ pool_collected < pool_done
            /\ pool_collected' = pool_collected + 1
            /\ pool_pc' = "collect"
       ELSE /\ pool_pc' = "exit"
            /\ UNCHANGED pool_collected
    /\ UNCHANGED <<pool_n, pool_submitted, pool_running, pool_done>>
    /\ UNCHANGED notPool

\* The end of the with block, executor.shutdown(wait=True), returns when
\* no submitted call is queued or running; then the finally clause runs
\* file.close() and tree.disconnect().
PoolClose ==
    /\ pool_pc = "exit"
    /\ PoolQueued = 0
    /\ pool_running = 0
    /\ pool_pc' = "closed"
    /\ UNCHANGED <<pool_n, pool_submitted, pool_running, pool_done,
                   pool_collected>>
    /\ UNCHANGED notPool

(***************************************************************************)
(* src/win/smbgen.py: run_async_session_creation(server_ip, share_name,    *)
(* username, password, session_count, launch_reads) with a session_count   *)
(* of one batch. Connection i is made by the i-th coroutine                *)
(* async_create_smb_session_pair and, when launch_reads is true, read by   *)
(* the i-th process_file_read thread.                                      *)
(***************************************************************************)
ConnIds == 1 .. gen_count

\* A remote call of connection i has raised: the connection is as it was,
\* or the call raised because the connection is lost.
AfterRaise(i, lost) == [gen_open EXCEPT ![i] = @ /\ ~lost]

\* async_create_smb_connection up to "await asyncio.to_thread(conn.connect)"
GenConnect(i) ==
    /\ gen_pc[i] = "connect"
    /\ \E ok \in BOOLEAN :
          /\ gen_pc' = [gen_pc EXCEPT
                           ![i] = IF ok THEN "connected" ELSE "not created"]
          /\ gen_open' = [gen_open EXCEPT ![i] = ok]
    /\ UNCHANGED <<gen_count, gen_launch_reads, gen_attempt,
                   established_connections>>
    /\ UNCHANGED notGen

\* The coroutine resumes: "with thread_lock: established_connections += 1"
GenCountUp(i) ==
    /\ gen_pc[i] = "connected"
    /\ established_connections' = established_connections + 1
    /\ gen_pc' = [gen_pc EXCEPT ![i] = "session"]
    /\ UNCHANGED <<gen_count, gen_launch_reads, gen_open, gen_attempt>>
    /\ UNCHANGED notGen

\* One attempt of async_create_smb_session_with_retry: the session, or
\* another attempt, or the exception of the last attempt, which ends
\* async_create_smb_session_pair with the connection as it is.
GenSession(i) ==
    /\ gen_pc[i] = "session"
    /\ \/ /\ gen_pc' = [gen_pc EXCEPT ![i] = "created"]
          /\ UNCHANGED <<gen_open, gen_attempt>>
       \/ /\ \E lost \in BOOLEAN : gen_open' = AfterRaise(i, lost)
          /\ IF gen_attempt[i] < SessionRetries - 1
             THEN /\ gen_attempt' = [gen_attempt EXCEPT ![i] = @ + 1]
                  /\ UNCHANGED gen_pc
             ELSE /\ gen_pc' = [gen_pc EXCEPT ![i] = "not created"]
                  /\ UNCHANGED gen_attempt
    /\ UNCHANGED <<gen_count, gen_launch_reads, established_connections>>
    /\ UNCHANGED notGen

\* asyncio.gather has returned the results of the batch: with
\* launch_reads, process_file_read is submitted for every pair created;
\* without, the pairs are returned as they are.
GenGather ==
    /\ \A i \in ConnIds : gen_pc[i] \in {"created", "not created"}
    /\ \E i \in ConnIds : gen_pc[i] = "created"
    /\ gen_pc' = [i \in ConnIds |->
                     IF gen_pc[i] = "created"
                     THEN IF gen_launch_reads THEN "open" ELSE "inactive"
                     ELSE gen_pc[i]]
    /\ UNCHANGED <<gen_count, gen_launch_reads, gen_open, gen_attempt,
                   established_connections>>
    /\ UNCHANGED notGen

\* process_file_read: open_smb_file; the except clause logs the error
\* and counts a failed session.
GenOpenFile(i) ==
    /\ gen_pc[i] = "open"
    /\ \/ /\ gen_pc' = [gen_pc EXCEPT ![i] = "read"]
          /\ UNCHANGED gen_open
       \/ /\ gen_pc' = [gen_pc EXCEPT ![i] = "failed"]
          /\ \E lost \in BOOLEAN : gen_open' = AfterRaise(i, lost)
    /\ UNCHANGED <<gen_count, gen_launch_reads, gen_attempt,
                   established_connections>>
    /\ UNCHANGED notGen

\* process_file_read: read_smb_file_data, which re-raises what file.read
\* raises other than EndOfFile
GenRead(i) ==
    /\ gen_pc[i] = "read"
    /\ \/ /\ gen_pc' = [gen_pc EXCEPT ![i] = "close"]
          /\ UNCHANGED gen_open
       \/ /\ gen_pc' = [gen_pc EXCEPT ![i] = "failed"]
          /\ \E lost \in BOOLEAN : gen_open' = AfterRaise(i, lost)
    /\ UNCHANGED <<gen_count, gen_launch_reads, gen_attempt,
                   established_connections>>
    /\ UNCHANGED notGen

\* close_smb_resources: file.close(), tree.disconnect(), conn.disconnect().
\* A call that raises ends the function before the counter is touched.
GenClose(i) ==
    /\ gen_pc[i] = "close"
    /\ \/ /\ gen_pc' = [gen_pc EXCEPT ![i] = "disconnected"]
          /\ gen_open' = [gen_open EXCEPT ![i] = FALSE]
       \/ /\ gen_pc' = [gen_pc EXCEPT ![i] = "failed"]
          /\ \E lost \in BOOLEAN : gen_open' = AfterRaise(i, lost)
    /\ UNCHANGED <<gen_count, gen_launch_reads, gen_attempt,
                   established_connections>>
    /\ UNCHANGED notGen

\* close_smb_resources: "with thread_lock: established_connections -= 1"
GenCountDown(i) ==
    /\ gen_pc[i] = "disconnected"
    /\ established_connections' = established_connections - 1
    /\ gen_pc' = [gen_pc EXCEPT ![i] = "released"]
    /\ UNCHANGED <<gen_count, gen_launch_reads, gen_open, gen_attempt>>
    /\ UNCHANGED notGen

(***************************************************************************)
(* Specifications                                                          *)
(***************************************************************************)
MainIdle ==
    /\ num_smb_sessions = 0
    /\ fail_fast = FALSE
    /\ mode = "default"
    /\ args_block_size = 0
    /\ main_pc = "idle"
    /\ yielded = <<>>
    /\ task_stats = <<>>
    /\ elapsed = 0
    /\ summary = NoSummary

TasksIdle ==
    /\ task_pc = [i \in TaskIds |-> "unsubmitted"]
    /\ conn_open = [i \in TaskIds |-> FALSE]
    /\ session_open = [i \in TaskIds |-> FALSE]
    /\ tree_open = [i \in TaskIds |-> FALSE]
    /\ stats = [i \in TaskIds |-> EmptyDict]
    /\ call_failed = [i \in TaskIds |-> FALSE]
    /\ dir_error = [i \in TaskIds |-> FALSE]
    /\ futures = [i \in TaskIds |-> NoOutcome]

FoldIdle ==
    /\ fold_list = <<>>
    /\ fold_perm = <<>>
    /\ fold_elapsed = 0
    /\ fold_pc = "idle"
    /\ fold_a = NoSummary
    /\ fold_b = NoSummary

CfgIdle ==
    /\ cfg_cli = NoFile
    /\ cfg_loaded = FALSE
    /\ cfg_file = NoFile
    /\ cfg_args = NoFile
    /\ cfg_pc = "idle"

RioIdle ==
    /\ rio_file_size = 0
    /\ rio_block_size = 0
    /\ rio_num_ops = 0
    /\ rio_read_pct = 0
    /\ rio_pc = "idle"
    /\ rio_ops = <<>>
    /\ rio_total = 0
    /\ rio_attempt = 0
    /\ rio_transferred = 0

FileIdle ==
    /\ wr_size = 0
    /\ wr_block_size = 0
    /\ file_pc = "idle"
    /\ writes = <<>>
    /\ total_written = 0
    /\ end_of_file = 0
    /\ file_size = 0
    /\ offsets = {}
    /\ rd_total_bytes = 0
    /\ op_failed = FALSE
    /\ wr_attempt = 0
    /\ rd_attempt = 0
    /\ written_before = {}
    /\ chunks = {}
    /\ wr_turn = 0
    /\ rd_trees = 0
    /\ rd_handles = 0

UuidIdle ==
    /\ uuid_file = NoUuidFile
    /\ uuid_touched = FALSE
    /\ uuid_calls = <<>>

ChurnIdle ==
    /\ ch_task_id = 0
    /\ ch_pc = "idle"
    /\ ch_count = 0
    /\ ch_attempt = 0
    /\ random_files = <<>>
    /\ ch_deleted = <<>>
    /\ ch_delete_errors = 0
    /\ ch_events = <<>>
    /\ ch_touched = {}
    /\ ch_stats = EmptyDict

PoolIdle ==
    /\ pool_pc = "idle"
    /\ pool_n = 0
    /\ pool_submitted = 0
    /\ pool_running = 0
    /\ pool_done = 0
    /\ pool_collected = 0

GenIdle ==
    /\ gen_count = 0
    /\ gen_launch_reads = FALSE
    /\ gen_pc = <<>>
    /\ gen_open = <<>>
    /\ gen_attempt = <<>>
    /\ established_connections = 0

RetryIdle ==
    /\ max_attempts = 0
    /\ delay_seconds = 0
    /\ retry_pc = "idle"
    /\ attempt = 0
    /\ calls = <<>>
    /\ sleeps = <<>>
    /\ retry_result = NoResult

\* The state of __main__ when the scheduler loop is entered: the resolved
\* arguments, task_stats = [] and no task submitted.
Init ==
    /\ num_smb_sessions \in 0 .. MaxSessions
    /\ fail_fast \in BOOLEAN
    /\ mode \in Modes
    /\ args_block_size = DefaultBlockSize
    /\ main_pc = "start"
    /\ yielded = <<>>
    /\ task_stats = <<>>
    /\ elapsed = 0
    /\ summary = NoSummary
    /\ TasksIdle
    /\ RetryIdle
    /\ FoldIdle
    /\ CfgIdle
    /\ RioIdle
    /\ FileIdle
    /\ UuidIdle
    /\ ChurnIdle
    /\ PoolIdle
    /\ GenIdle

Next ==
    \/ Submit
    \/ \E i \in TaskIds : process_task(i)
    \/ \E i \in TaskIds : AsCompleted(i)
    \/ ExitWith
    \/ PrintSummary

Spec == Init /\ [][Next]_vars

\* The run when remote calls may never return, in a mode whose workload
\* is defined and in the mode whose workload raises NameError (the byte
\* counts of the other modes play no part in the scheduling).
InitHang ==
    /\ Init
    /\ mode \in {"streaming_writes"} \cup UndefinedHelper

NextHang ==
    \/ Next
    \/ \E i \in TaskIds : Hang(i)

\* The operating system schedules every thread: the main thread submits
\* the tasks, and a task that can take a step takes it.  Nothing makes a
\* call hang, and nothing makes a hung call return.
SpecHang ==
    /\ InitHang
    /\ [][NextHang]_vars
    /\ WF_vars(Submit)
    /\ \A i \in TaskIds : WF_vars(process_task(i))

\* A call of a wrapped function: the decorator's arguments are those the
\* program uses (max_attempts from 1 up, delay_seconds 1 or 2).
InitRetry ==
    /\ max_attempts \in 1 .. MaxAttempts
    /\ delay_seconds \in {1, 2}
    /\ retry_pc = "for"
    /\ attempt = 0
    /\ calls = <<>>
    /\ sleeps = <<>>
    /\ retry_result = NoResult
    /\ MainIdle
    /\ TasksIdle
    /\ FoldIdle
    /\ CfgIdle
    /\ RioIdle
    /\ FileIdle
    /\ UuidIdle
    /\ ChurnIdle
    /\ PoolIdle
    /\ GenIdle

NextRetry ==
    \/ RetryLoop
    \/ RetryTry
    \/ RetryExcept

SpecRetry == InitRetry /\ [][NextRetry]_vars

\* print_summary is given a list of results and an elapsed time.
InitFold ==
    /\ fold_list \in ResultLists
    /\ fold_perm = fold_list
    /\ fold_elapsed \in 0 .. MaxElapsed
    /\ fold_pc = "permute"
    /\ fold_a = NoSummary
    /\ fold_b = NoSummary
    /\ MainIdle
    /\ TasksIdle
    /\ RetryIdle
    /\ CfgIdle
    /\ RioIdle
    /\ FileIdle
    /\ UuidIdle
    /\ ChurnIdle
    /\ PoolIdle
    /\ GenIdle

NextFold ==
    \/ FoldSwap
    \/ FoldBoth

SpecFold == InitFold /\ [][NextFold]_vars

\* A command line and, when a config file is found and loaded, its
\* content.
InitCfg ==
    /\ cfg_cli \in CommandLines
    /\ cfg_loaded \in BOOLEAN
    /\ cfg_file \in IF cfg_loaded THEN ConfigFiles ELSE {NoFile}
    /\ cfg_args = NoFile
    /\ cfg_pc = "parse"
    /\ MainIdle
    /\ TasksIdle
    /\ RetryIdle
    /\ FoldIdle
    /\ RioIdle
    /\ FileIdle
    /\ UuidIdle
    /\ ChurnIdle
    /\ PoolIdle
    /\ GenIdle

NextCfg ==
    \/ ParseArgs
    \/ MergeArgs
    \/ ValidateArgs

SpecCfg == InitCfg /\ [][NextCfg]_vars

\* A call of smb_random_io by process_task: file_size is
\* args.max_file_size MiB, block_size is args.block_size, num_ops is
\* args.num_random_ops and read_pct is args.max_random_io_readpct.
InitRio ==
    /\ rio_file_size \in FileSizes
    /\ rio_block_size \in BlockSizes
    /\ rio_num_ops \in 0 .. MaxOps
    /\ rio_read_pct \in {0, 50, 100}
    /\ rio_pc = "open"
    /\ rio_ops = <<>>
    /\ rio_total = 0
    /\ rio_attempt = 0
    /\ rio_transferred = 0
    /\ MainIdle
    /\ TasksIdle
    /\ RetryIdle
    /\ FoldIdle
    /\ CfgIdle
    /\ FileIdle
    /\ UuidIdle
    /\ ChurnIdle
    /\ PoolIdle
    /\ GenIdle

NextRio ==
    \/ RioOpen
    \/ RioIteration
    \/ RioClose
    \/ RioExcept

SpecRio == InitRio /\ [][NextRio]_vars

\* The default mode of process_task: the file may exist already, with any
\* of the lengths of the model.
InitFile ==
    /\ wr_size \in FileSizes
    /\ wr_block_size \in BlockSizes
    /\ file_pc = "create"
    /\ writes = <<>>
    /\ total_written = 0
    /\ end_of_file \in FileSizes
    /\ file_size = 0
    /\ offsets = {}
    /\ rd_total_bytes = 0
    /\ op_failed = FALSE
    /\ wr_attempt = 0
    /\ rd_attempt = 0
    /\ written_before = {}
    /\ chunks = {}
    /\ wr_turn = 0
    /\ rd_trees = 0
    /\ rd_handles = 0
    /\ MainIdle
    /\ TasksIdle
    /\ RetryIdle
    /\ FoldIdle
    /\ CfgIdle
    /\ RioIdle
    /\ UuidIdle
    /\ ChurnIdle
    /\ PoolIdle
    /\ GenIdle

NextFile ==
    \/ CreateOpen
    \/ CreateWrite
    \/ CreateClose
    \/ ReadOpen
    \/ ReadChunk
    \/ ReadClose

SpecFile == InitFile /\ [][NextFile]_vars

\* --block_size 0 is accepted: smb_create_file and smb_read_file with a
\* block size of 0 too, every call returning or raising in the end.
InitFileLive ==
    /\ wr_size \in FileSizes
    /\ wr_block_size \in {0} \cup BlockSizes
    /\ file_pc = "create"
    /\ writes = <<>>
    /\ total_written = 0
    /\ end_of_file \in FileSizes
    /\ file_size = 0
    /\ offsets = {}
    /\ rd_total_bytes = 0
    /\ op_failed = FALSE
    /\ wr_attempt = 0
    /\ rd_attempt = 0
    /\ written_before = {}
    /\ chunks = {}
    /\ wr_turn = 0
    /\ rd_trees = 0
    /\ rd_handles = 0
    /\ MainIdle
    /\ TasksIdle
    /\ RetryIdle
    /\ FoldIdle
    /\ CfgIdle
    /\ RioIdle
    /\ UuidIdle
    /\ ChurnIdle
    /\ PoolIdle
    /\ GenIdle

SpecFileLive == InitFileLive /\ [][NextFile]_vars /\ WF_vars(NextFile)

\* The working directory of the first run may hold any client_uuid.txt.
InitUuid ==
    /\ uuid_file \in {NoUuidFile} \cup UuidFileTexts
    /\ uuid_touched = FALSE
    /\ uuid_calls = <<>>
    /\ MainIdle
    /\ TasksIdle
    /\ RetryIdle
    /\ FoldIdle
    /\ CfgIdle
    /\ RioIdle
    /\ FileIdle
    /\ ChurnIdle
    /\ PoolIdle
    /\ GenIdle

NextUuid ==
    \/ GetClientUuid
    \/ UuidFileTouched

SpecUuid == InitUuid /\ [][NextUuid]_vars

\* The default branch of any one task of the run.
InitChurn ==
    /\ ch_task_id \in TaskIds
    /\ ch_pc = "create_file"
    /\ ch_count = 0
    /\ ch_attempt = 0
    /\ random_files = <<>>
    /\ ch_deleted = <<>>
    /\ ch_delete_errors = 0
    /\ ch_events = <<>>
    /\ ch_touched = {}
    /\ ch_stats = EmptyDict
    /\ MainIdle
    /\ TasksIdle
    /\ RetryIdle
    /\ FoldIdle
    /\ CfgIdle
    /\ RioIdle
    /\ FileIdle
    /\ UuidIdle
    /\ PoolIdle
    /\ GenIdle

NextChurn ==
    \/ ChurnCreateFile
    \/ ChurnReadFile
    \/ ChurnCreateRandom
    \/ ChurnDelete
    \/ ChurnCount

SpecChurn == InitChurn /\ [][NextChurn]_vars

\* One call of smb_read_file on a file of pool_n ranges.
InitPool ==
    /\ pool_pc = "submit"
    /\ pool_n \in 0 .. MaxChunks
    /\ pool_submitted = 0
    /\ pool_running = 0
    /\ pool_done = 0
    /\ pool_collected = 0
    /\ MainIdle
    /\ TasksIdle
    /\ RetryIdle
    /\ FoldIdle
    /\ CfgIdle
    /\ RioIdle
    /\ FileIdle
    /\ UuidIdle
    /\ ChurnIdle
    /\ GenIdle

NextPool ==
    \/ PoolSubmit
    \/ PoolStart
    \/ PoolFinish
    \/ PoolCollect
    \/ PoolClose

SpecPool == InitPool /\ [][NextPool]_vars

\* established_connections = 0 when the module is loaded.
InitGen ==
    /\ gen_count \in 1 .. MaxConns
    /\ gen_launch_reads \in BOOLEAN
    /\ gen_pc = [i \in 1 .. gen_count |-> "connect"]
    /\ gen_open = [i \in 1 .. gen_count |-> FALSE]
    /\ gen_attempt = [i \in 1 .. gen_count |-> 0]
    /\ established_connections = 0
    /\ MainIdle
    /\ TasksIdle
    /\ RetryIdle
    /\ FoldIdle
    /\ CfgIdle
    /\ RioIdle
    /\ FileIdle
    /\ UuidIdle
    /\ ChurnIdle
    /\ PoolIdle

NextGen ==
    \/ \E i \in ConnIds : GenConnect(i)
    \/ \E i \in ConnIds : GenCountUp(i)
    \/ \E i \in ConnIds : GenSession(i)
    \/ GenGather
    \/ \E i \in ConnIds : GenOpenFile(i)
    \/ \E i \in ConnIds : GenRead(i)
    \/ \E i \in ConnIds : GenClose(i)
    \/ \E i \in ConnIds : GenCountDown(i)

SpecGen == InitGen /\ [][NextGen]_vars

(***************************************************************************)
(* Properties of the run of __main__ (checked under Spec)                  *)
(***************************************************************************)
\* The task ended in failure: its future holds an exception or the {} of
\* the except clause.
TaskFailed(i) ==
    \/ futures[i].state = "raised"
    \/ futures[i].state = "returned" /\ ~Truthy(futures[i].value)

TaskSucceeded(i) ==
    futures[i].state = "returned" /\ Truthy(futures[i].value)

NumFailed == Cardinality({i \in Tasks : TaskFailed(i)})

AnyOpen(i) == conn_open[i] \/ session_open[i] \/ tree_open[i]

\* The tasks whose results were appended to task_stats, in that order.
StatsOrigin == SelectSeq(yielded, TaskSucceeded)

\* The position in yielded of the first failed task, 0 when there is none.
FirstFailure ==
    LET failed == {k \in 1 .. Len(yielded) : TaskFailed(yielded[k])}
    IN  IF failed = {} THEN 0
        ELSE CHOOSE k \in failed : \A j \in failed : k <= j

\* task_stats holds exactly the values of the successful futures yielded
\* so far, in the order of their completion.
TaskStatsOK ==
    /\ Len(task_stats) = Len(StatsOrigin)
    /\ \A k \in 1 .. Len(task_stats) :
          task_stats[k] = futures[StatsOrigin[k]].value

\* C1: in a run without fail-fast, once the run has finished the number of
\* results collected in task_stats equals the session count N, whatever
\* number of tasks failed.
C1_ResultCountEqualsN ==
    (main_pc = "done" /\ ~fail_fast)
        => Len(task_stats) = num_smb_sessions

\* C2: every dispatched task yields exactly one result that reaches the
\* aggregator; the result of a failed task carries the error and no byte
\* or file count, the result of a successful task carries its mode label,
\* its bytes and its file count.
C2_OneResultPerTask ==
    main_pc = "done" =>
        /\ Len(task_stats) = num_smb_sessions
        /\ \A i \in Tasks :
              \E k \in 1 .. Len(task_stats) :
                 IF TaskFailed(i)
                 THEN /\ "error" \in DOMAIN task_stats[k]
                      /\ "bytes_read" \notin DOMAIN task_stats[k]
                      /\ "num_random_files" \notin DOMAIN task_stats[k]
                 ELSE /\ task_stats[k] = futures[i].value
                      /\ {"mode", "bytes_read", "num_random_files"}
                             \subseteq DOMAIN task_stats[k]

\* C3: no task reaches its end state with a connection, a session or a
\* tree attachment that it acquired still open.
C3_ResourcesReleased ==
    \A i \in TaskIds : task_pc[i] = "done" => ~AnyOpen(i)

\* C4: with fail-fast, the scheduler stops at the first failed task: no
\* future is taken after it and task_stats holds only what completed
\* before it; without fail-fast every result is awaited.
C4_FailFastStops ==
    main_pc = "done" =>
        IF fail_fast /\ FirstFailure # 0
        THEN /\ Len(yielded) = FirstFailure
             /\ Len(task_stats) = FirstFailure - 1
        ELSE YieldedSet = Tasks

\* C5: when the summary is produced every dispatched task has reached its
\* end state and has released its resources, with or without fail-fast.
C5_AllTasksEndedAndReleased ==
    main_pc \in {"print_summary", "done"} =>
        \A i \in Tasks : task_pc[i] = "done" /\ ~AnyOpen(i)

\* The steps of the main thread.
MainStep ==
    \/ Submit
    \/ \E i \in TaskIds : AsCompleted(i)
    \/ ExitWith
    \/ PrintSummary

\* C6: a failure inside a task stays in that task: no future ever holds an
\* exception, a task that has not ended can always take its next step
\* whatever happened to its siblings, the main thread is never stopped by
\* a task's failure (it can always take its next step once the tasks it
\* waits for have ended), and the run ends with the summary printed.
C6_FailureContained ==
    /\ \A i \in TaskIds : futures[i].state # "raised"
    /\ \A i \in Tasks :
          (main_pc # "start" /\ task_pc[i] # "done")
              => ENABLED process_task(i)
    /\ (main_pc \in {"as_completed", "print_summary"}
           /\ \A i \in Tasks : task_pc[i] = "done")
          => ENABLED MainStep
    /\ main_pc # "break"
    /\ main_pc = "crashed" => num_smb_sessions = 0
    /\ main_pc = "done" => summary.printed
                              /\ \A i \in Tasks : task_pc[i] = "done"

\* The run has ended with its summary, one task failed and a sibling
\* succeeded and was folded in.
C6_Witness ==
    /\ main_pc = "done"
    /\ summary.printed
    /\ \E i, j \in Tasks : TaskFailed(i) /\ TaskSucceeded(j)
    /\ Len(task_stats) >= 1

\* C7: the summary shows both the number of tasks attempted, N, and the
\* number completed, N - f, when f tasks failed.  The only task count the
\* summary prints is "Total Tasks Executed".
C7_SummaryShowsAttemptedAndCompleted ==
    main_pc = "done" =>
        LET shown == {summary.total_tasks}
        IN  /\ num_smb_sessions \in shown
            /\ (num_smb_sessions - NumFailed) \in shown

\* C10 as stated: no division by zero, and whenever elapsed is zero or no
\* byte was moved, throughput and IOPS are 0 and the warning is printed.
C10_ZeroWithWarning ==
    main_pc \in {"done", "crashed"} =>
        /\ ~summary.raised
        /\ (summary.printed
               /\ (summary.elapsed_time = 0 \/ summary.total_bytes = 0))
              => /\ summary.max_throughput = 0
                 /\ summary.max_iops = 0
                 /\ summary.warning

\* C10 (amended): print_summary never divides by zero; whenever elapsed is
\* zero or no byte was moved, throughput and IOPS are both 0; the warning
\* is printed exactly when the total of bytes is zero.
C10_ZeroWithoutDivision ==
    main_pc \in {"done", "crashed"} =>
        /\ ~summary.raised
        /\ num_smb_sessions > 0 => summary.printed
        /\ (summary.printed
               /\ (summary.elapsed_time = 0 \/ summary.total_bytes = 0))
              => /\ summary.max_throughput = 0
                 /\ summary.max_iops = 0
        /\ summary.printed => (summary.warning <=> summary.total_bytes = 0)

\* A summary of a run that moved bytes in zero elapsed time: throughput
\* and IOPS are 0 and there is no warning.
C10_Witness ==
    /\ main_pc = "done"
    /\ summary.printed
    /\ summary.elapsed_time = 0
    /\ summary.total_bytes > 0
    /\ summary.max_throughput = 0
    /\ summary.max_iops = 0
    /\ ~summary.warning

\* C12: in streaming-writes mode, when all N tasks succeed the summary
\* shows N tasks, 0 bytes moved and 0 files churned: the bytes written are
\* not counted.
C12_StreamingWritesCountNothing ==
    (mode = "streaming_writes" /\ main_pc = "done"
        /\ \A i \in Tasks : TaskSucceeded(i))
        => /\ summary.total_tasks = num_smb_sessions
           /\ summary.total_bytes = 0
           /\ summary.total_files = 0

\* A streaming-writes run of at least two tasks, all successful, has
\* printed its summary.
C12_Witness ==
    /\ mode = "streaming_writes"
    /\ main_pc = "done"
    /\ num_smb_sessions >= 2
    /\ \A i \in Tasks : TaskSucceeded(i)
    /\ summary.printed
    /\ summary.total_tasks = num_smb_sessions

\* --num_iops_reads, at its default
NumIopsReads == 1024

\* C18: in read-iops mode a task none of whose remote calls failed ends
\* successfully and reports num_iops_reads * 4096 bytes read.
C18_ReadIopsReportsBytes ==
    \A i \in Tasks :
        (mode = "read_iops" /\ task_pc[i] = "done" /\ ~call_failed[i])
            => /\ TaskSucceeded(i)
               /\ Get(futures[i].value, "bytes_read", 0)
                     = NumIopsReads * IopSize

\* C25: no step of the run changes the configuration that the tasks
\* share; a task hands nothing to the rest of the program but its result.
C25_SharedArgsNeverMutated ==
    [][/\ args_block_size' = args_block_size
       /\ num_smb_sessions' = num_smb_sessions
       /\ fail_fast' = fail_fast
       /\ mode' = mode]_vars

\* The states of process_task in the order the function passes them; a
\* task leaves any of them for "done" when a call raises.
StateOrder == <<"unsubmitted", "conn_connect", "session_connect",
                "tree_connect", "ensure_directory", "workload",
                "tree_disconnect", "session_disconnect", "conn_disconnect">>

StateIndex(label) ==
    CHOOSE n \in 1 .. Len(StateOrder) : StateOrder[n] = label

\* C24: a task enters each state from the state before it, so it reaches
\* its workload only from the directory-ensure call, which it reaches
\* only attached to the share; and the directory-ensure call always
\* leads to the workload, also when it fails.
C24_EnsureBeforeWorkload ==
    [][\A i \in TaskIds :
          task_pc'[i] # task_pc[i] =>
             /\ task_pc'[i] \notin {"done", "hung"}
                   => StateIndex(task_pc'[i]) = StateIndex(task_pc[i]) + 1
             /\ task_pc'[i] = "ensure_directory" => tree_open'[i]
             /\ task_pc[i] = "ensure_directory"
                   => (task_pc'[i] = "workload" \/ task_pc'[i] = "hung")]_vars

\* The workload of a task has run although its directory-ensure call had
\* failed.
C24_Witness ==
    \E i \in Tasks :
        /\ task_pc[i] = "tree_disconnect"
        /\ dir_error[i]
        /\ Truthy(stats[i])

\* C20: a submitted task reaches its end state unless one of its own
\* remote calls never returns, whatever happens to the calls of the other
\* tasks (checked under SpecHang).
C20_SiblingsNotStalled ==
    \A j \in TaskIds :
        (task_pc[j] # "unsubmitted") ~> (task_pc[j] \in {"done", "hung"})

\* A task has ended successfully while a task submitted before it is
\* blocked in a call that never returns.
C20_Witness ==
    \E i \in Tasks, j \in Tasks :
        /\ i < j
        /\ task_pc[i] = "hung"
        /\ task_pc[j] = "done"
        /\ TaskSucceeded(j)

(***************************************************************************)
(* Properties of the retry wrapper (checked under SpecRetry)               *)
(***************************************************************************)
AllRaised == \A n \in 1 .. Len(calls) : calls[n].kind = "raised"

\* C8: when func raises on every call, wrapper with max_attempts = k >= 1
\* calls it exactly k times and then raises the exception of the last
\* call; wrapper never returns a value unless a call of func returned.
C8_RaisesAfterKAttempts ==
    /\ (retry_pc = "done" /\ AllRaised)
          => /\ Len(calls) = max_attempts
             /\ retry_result = WrapperRaise(max_attempts)
    /\ retry_result.kind = "returned" => ~AllRaised
    /\ Len(calls) <= max_attempts

\* wrapper has raised after at least two failed calls.
C8_Witness ==
    /\ retry_pc = "done"
    /\ max_attempts >= 2
    /\ AllRaised
    /\ Len(calls) = max_attempts
    /\ retry_result.kind = "raised"

\* C35: the wrapper sleeps once, for delay_seconds, between two
\* consecutive attempts and at no other time: a call that has made j
\* attempts has slept j - 1 times.
C35_SleepsBetweenAttempts ==
    /\ \A n \in 1 .. Len(sleeps) : sleeps[n] = delay_seconds
    /\ Len(sleeps) <= Len(calls)
    /\ Len(sleeps) = Len(calls) => retry_pc \in {"for", "try"}
    /\ retry_pc \in {"except", "done"} => Len(sleeps) = Len(calls) - 1

\* wrapper has returned on its third attempt, after two sleeps.
C35_Witness ==
    /\ retry_pc = "done"
    /\ retry_result.kind = "returned"
    /\ Len(calls) = 3
    /\ Len(sleeps) = 2

\* C9: when func raises on its first j - 1 calls and returns on call j,
\* 1 <= j <= k, wrapper returns the value of call j and has called func
\* exactly j times: a call that returned is always the last call.
C9_ReturnsFirstSuccess ==
    /\ \A n \in 1 .. Len(calls) :
          calls[n].kind = "returned"
              => /\ n = Len(calls)
                 /\ n <= max_attempts
                 /\ retry_pc = "done"
                 /\ retry_result.kind = "returned"
                 /\ retry_result.value = calls[n].value
    /\ (retry_pc = "done" /\ ~AllRaised)
          => /\ calls[Len(calls)].kind = "returned"
             /\ \A n \in 1 .. (Len(calls) - 1) : calls[n].kind = "raised"

\* wrapper has returned the value of a call that followed a failed call.
C9_Witness ==
    /\ retry_pc = "done"
    /\ Len(calls) >= 2
    /\ calls[1].kind = "raised"
    /\ calls[Len(calls)].kind = "returned"
    /\ calls[Len(calls)].value = "value"
    /\ retry_result = WrapperReturn("value")

(***************************************************************************)
(* Properties of print_summary as a function (checked under SpecFold)      *)
(***************************************************************************)
\* C11: folding a list of task results and folding any permutation of it
\* give the same total of bytes, the same total of files, the same number
\* of tasks and the same set of mode labels.
C11_OrderIndependent ==
    fold_pc = "done" =>
        /\ fold_a.printed /\ fold_b.printed
        /\ fold_a.total_bytes = fold_b.total_bytes
        /\ fold_a.total_files = fold_b.total_files
        /\ fold_a.total_tasks = fold_b.total_tasks
        /\ fold_a.modes = fold_b.modes

\* Two different orders of results with different byte and file counts
\* were folded.
C11_Witness ==
    /\ fold_pc = "done"
    /\ Len(fold_list) >= 2
    /\ fold_perm # fold_list
    /\ fold_perm[Len(fold_perm)].bytes_read
          # fold_list[Len(fold_list)].bytes_read
    /\ fold_perm[Len(fold_perm)].num_random_files
          # fold_list[Len(fold_list)].num_random_files
    /\ Cardinality(fold_a.modes) >= 2

(***************************************************************************)
(* Properties of the resolved configuration (checked under SpecCfg)        *)
(***************************************************************************)
Resolved == cfg_pc \in {"validate", "accepted", "rejected"}

\* C13: after the resolution, a key that the command line set has the
\* command line's value, also when that value is the option's default, and
\* a key that the command line did not set has the value of the loaded
\* config file.
C13_CommandLineWins ==
    Resolved =>
        \A k \in ConfigKeys :
            IF cfg_cli[k] # Unset
            THEN cfg_args[k] = cfg_cli[k]
            ELSE (cfg_loaded /\ cfg_file[k] # Absent)
                     => cfg_args[k] = cfg_file[k]

\* C14: after the resolution at most one of the four mode flags is true.
C14_OneModeActive ==
    Resolved =>
        Cardinality({k \in ModeFlags : IsTrue(cfg_args[k])}) <= 1

\* C36: for every accepted configuration, also one with several mode
\* flags true, the mode whose label infer_mode_label puts in the result
\* is the mode whose branch process_task executes.
C36_LabelNamesDispatchedMode ==
    cfg_pc = "accepted" =>
        infer_mode_label(FirstTrue(cfg_args, LabelOrder))
            = infer_mode_label(FirstTrue(cfg_args, DispatchOrder))

\* An accepted configuration with a read flag and a write flag true.
C36_Witness ==
    /\ cfg_pc = "accepted"
    /\ IsTrue(cfg_args["mode_streaming_reads"])
    /\ IsTrue(cfg_args["mode_streaming_writes"])
    /\ FirstTrue(cfg_args, DispatchOrder) = "streaming_reads"

\* C15: a configuration that is accepted with random-io selected has a
\* read percentage that is an integer of 0..100.
C15_ReadPctInRange ==
    (cfg_pc = "accepted" /\ IsTrue(cfg_args["mode_random_io"]))
        => /\ cfg_args["max_random_io_readpct"].t = "int"
           /\ cfg_args["max_random_io_readpct"].i \in 0 .. 100

(***************************************************************************)
(* Properties of smb_random_io (checked under SpecRio)                     *)
(***************************************************************************)
RioCount(kind) ==
    Cardinality({n \in 1 .. Len(rio_ops) : rio_ops[n].kind = kind})

RioNoFailure == \A n \in 1 .. Len(rio_ops) : rio_ops[n].ok

\* C16: when no operation fails, a call with read percentage 0 issues
\* num_ops writes and no read and returns num_ops * block_size; a call
\* with read percentage 100 issues num_ops reads and no write.
C16_AllWritesOrAllReads ==
    (rio_pc = "returned" /\ RioNoFailure)
        => /\ rio_read_pct = 0
                 => /\ RioCount("write") = rio_num_ops
                    /\ RioCount("read") = 0
                    /\ rio_total = rio_num_ops * rio_block_size
           /\ rio_read_pct = 100
                 => /\ RioCount("read") = rio_num_ops
                    /\ RioCount("write") = 0

\* A call with read percentage 0 has returned after two writes or more.
C16_Witness ==
    /\ rio_pc = "returned"
    /\ RioNoFailure
    /\ rio_read_pct = 0
    /\ rio_num_ops >= 2
    /\ RioCount("write") = rio_num_ops
    /\ rio_total = rio_num_ops * rio_block_size

\* C32: every operation of smb_random_io is at an offset o with
\* 0 <= o and o + block_size <= file_size, for every file size and block
\* size.
C32_OffsetsWithinFile ==
    \A n \in 1 .. Len(rio_ops) :
        /\ rio_ops[n].offset >= 0
        /\ rio_ops[n].offset + rio_block_size <= rio_file_size

RECURSIVE RioSum(_)
RioSum(ops) == IF ops = <<>> THEN 0 ELSE Head(ops).length + RioSum(Tail(ops))

RioFailed(n, kind) == rio_ops[n].kind = kind /\ ~rio_ops[n].ok

\* C33: a read that fails counts 0 bytes and the loop goes on, so that a
\* call that returns has issued num_ops operations; a write that fails is
\* the last operation of its attempt, which fails, and an attempt that
\* fails within the loop fails at a write.
C33_FailedReadSkipped ==
    /\ \A n \in 1 .. Len(rio_ops) :
          /\ RioFailed(n, "read") => rio_ops[n].length = 0
          /\ RioFailed(n, "write")
                => n = Len(rio_ops) /\ rio_pc \in {"except", "raised"}
    /\ rio_total = RioSum(rio_ops)
    /\ rio_pc = "returned" => Len(rio_ops) = rio_num_ops
    /\ (rio_pc \in {"except", "raised"} /\ rio_ops /= <<>>
            /\ Len(rio_ops) < rio_num_ops)
          => RioFailed(Len(rio_ops), "write")

\* The first attempt has returned although its first read failed.
C33_Witness ==
    /\ rio_pc = "returned"
    /\ rio_attempt = 0
    /\ Len(rio_ops) = rio_num_ops
    /\ rio_num_ops >= 2
    /\ RioFailed(1, "read")
    /\ rio_total > 0

\* C39: the byte count smb_random_io returns is the number of bytes its
\* reads and writes have moved, those of failed attempts included.
C39_ReturnsAllBytes ==
    rio_pc = "returned" => rio_total = rio_transferred

(***************************************************************************)
(* Properties of smb_create_file and smb_read_file (checked under          *)
(* SpecFile)                                                               *)
(***************************************************************************)
\* The write loop of smb_create_file has ended without an exception.
WriteLoopEnded == file_pc \in {"written", "read", "returned"}
                  \/ (file_pc = "write" /\ ~(total_written < wr_size))

\* C19: the writes of one attempt of smb_create_file are issued at
\* offsets 0, b, 2b, ..., each starting where the one before ended and of
\* length min(b, size - offset); the running total never exceeds size and
\* equals size when the write loop has ended.
C19_WritesContiguousAndBounded ==
    /\ \A n \in 1 .. Len(writes) :
          /\ writes[n].offset = (n - 1) * wr_block_size
          /\ writes[n].offset =
                IF n = 1 THEN 0
                ELSE writes[n - 1].offset + writes[n - 1].length
          /\ writes[n].length =
                Min(wr_block_size, wr_size - writes[n].offset)
    /\ total_written <= wr_size
    /\ WriteLoopEnded => total_written = wr_size

\* The write loop has ended after two writes or more, the last of them
\* shorter than a block.
C19_Witness ==
    /\ WriteLoopEnded
    /\ Len(writes) >= 2
    /\ writes[Len(writes)].length < wr_block_size
    /\ total_written = wr_size

\* C17: in default mode with no failing operation, the bytes read are at
\* least 0.9 times the size in bytes of the file just written.
C17_ReadAtLeastNineTenths ==
    (file_pc = "returned" /\ ~op_failed)
        => 10 * rd_total_bytes >= 9 * wr_size

\* A file of two blocks or more has been written and read back whole.
C17_Witness ==
    /\ file_pc = "returned"
    /\ ~op_failed
    /\ wr_size > 0
    /\ Len(writes) >= 2
    /\ rd_total_bytes = wr_size

\* C22: an attempt of the streaming write never writes again at an
\* offset that an earlier attempt, ended by a failure, has written.
C22_WrittenBlocksNotRewritten ==
    \A n \in 1 .. Len(writes) : writes[n].offset \notin written_before

\* C23: a streaming read that returns has no failed range counted as
\* zero bytes.
C23_FailedRangeNotCountedAsZero ==
    file_pc = "returned" => \A c \in chunks : c.ok

RECURSIVE SumLengths(_)
SumLengths(cs) ==
    IF cs = {} THEN 0
    ELSE LET c == CHOOSE x \in cs : TRUE
         IN  c.length + SumLengths(cs \ {c})

\* The ranges of the current attempt of smb_read_file: read or to read.
ReadRanges == offsets \cup {c.offset : c \in chunks}

C34_ShortFileNotAccepted ==
    file_pc \in {"written", "read", "returned"}
        => 10 * end_of_file >= 9 * wr_size

\* C38: an attempt of the streaming read starts with no tree and no
\* handle left open by an attempt before it, and the function holds at
\* most one tree and one handle at any moment.
C38_ClosedBeforeNextAttempt ==
    /\ file_pc = "written" => rd_trees = 0 /\ rd_handles = 0
    /\ rd_trees <= 1
    /\ rd_handles <= 1

\* C37: when no remote operation hangs, the write and the read of the
\* working file end, for every size and every block size that is not
\* negative.
C37_FileOperationsEnd == <>(file_pc \in {"returned", "raised"})

(***************************************************************************)
(* Properties of get_client_uuid (checked under SpecUuid)                  *)
(***************************************************************************)
\* C21: a call that finds a stored identity returns it and leaves the
\* file as it was; a call stores a new identity only when the file is
\* missing or blank; and a call that follows another call, with the file
\* untouched in between, returns the same identity and leaves the same
\* file.
C21_IdentityStable ==
    \A n \in 1 .. Len(uuid_calls) :
        LET c == uuid_calls[n]
        IN  /\ (c.before # NoUuidFile /\ Strip(c.before) # <<>>)
                 => (c.returned = Strip(c.before) /\ c.after = c.before)
            /\ c.after # c.before
                 => (c.before = NoUuidFile \/ Strip(c.before) = <<>>)
            /\ (n > 1 /\ ~c.touched)
                 => /\ c.returned = uuid_calls[n - 1].returned
                    /\ c.after = uuid_calls[n - 1].after

\* A call has generated and stored an identity, and the next call has
\* returned it.
C21_Witness ==
    /\ Len(uuid_calls) >= 2
    /\ uuid_calls[1].before = NoUuidFile
    /\ uuid_calls[1].after = uuid_calls[1].returned
    /\ ~uuid_calls[2].touched
    /\ uuid_calls[2].returned = uuid_calls[1].returned

(***************************************************************************)
(* Properties of the default branch (checked under SpecChurn)              *)
(***************************************************************************)
\* Every path a task with index j can open or create.
PathsOfTask(j) ==
    {WorkingFile(ClientDir, j)}
        \cup {RandomFile(ClientDir, seq, j) :
                 seq \in 0 .. (MinRandomFiles + MaxExtraFiles)}

DeletedSet == {ch_deleted[n] : n \in 1 .. Len(ch_deleted)}

\* C26: the paths a task opens, creates or deletes are its working file
\* <clientID>\smb_tempest.i and its placeholder files
\* <clientID>\<seq>_randomfile.i, and none of them is a path of a task
\* with another index.
C26_TaskPathsDisjoint ==
    /\ DeletedSet \subseteq ch_touched
    /\ \A path \in ch_touched :
          \/ path = ClientDir \o "\\smb_tempest." \o ToString(ch_task_id)
          \/ \E seq \in 0 .. (ch_count - 1) :
                path = ClientDir \o "\\" \o ToString(seq)
                          \o "_randomfile." \o ToString(ch_task_id)
    /\ \A j \in TaskIds \ {ch_task_id} :
          ch_touched \cap PathsOfTask(j) = {}

\* The task with index 1 has created and deleted all its files.
C26_Witness ==
    /\ ch_pc = "returned"
    /\ ch_task_id = 1
    /\ Cardinality(ch_touched) = ch_count + 1
    /\ Cardinality(DeletedSet) = ch_count

EventRank(e) ==
    CASE e = "write" -> 1
      [] e = "read" -> 2
      [] e = "create" -> 3
      [] e = "delete" -> 4

EventCount(e) ==
    Cardinality({n \in 1 .. Len(ch_events) : ch_events[n] = e})

\* C27: a default-mode task writes its file, reads it, creates c
\* placeholder files with 10 <= c <= 10000 and then attempts one delete
\* for each, in this order; no delete comes before the last creation, and
\* the file count of the result is c.
C27_WriteReadCreateDelete ==
    /\ \A m, n \in 1 .. Len(ch_events) :
          m < n => EventRank(ch_events[m]) <= EventRank(ch_events[n])
    /\ EventCount("write") <= 1 /\ EventCount("read") <= 1
    /\ EventCount("create") > 0 => EventCount("read") = 1
    /\ EventCount("read") = 1 => EventCount("write") = 1
    /\ EventCount("delete") > 0 => EventCount("create") = ch_count
    /\ ch_pc \in {"churn", "returned"}
          => (ch_count >= MinRandomFiles /\ ch_count <= MaxRandomFiles)
    /\ ch_pc = "returned"
          => /\ EventCount("create") = ch_count
             /\ EventCount("delete") = ch_count
             /\ ch_deleted = random_files
             /\ ch_stats.num_random_files = ch_count

\* A task has returned after more creations than the minimum and as many
\* deletes.
C27_Witness ==
    /\ ch_pc = "returned"
    /\ ch_count > MinRandomFiles
    /\ EventCount("delete") = ch_count
    /\ ch_stats.num_random_files = ch_count

\* C28: a failed delete does not fail the task, does not stop the deletes
\* of the remaining files and changes neither the bytes nor the file
\* count of the result.
C28_DeleteFailureNotEscalated ==
    /\ [](ch_delete_errors > 0 =>
            /\ ch_pc # "raised"
            /\ (ch_pc = "churn" /\ Len(ch_deleted) < Len(random_files))
                  => ENABLED ChurnDelete
            /\ ch_pc = "returned"
                  => /\ Len(ch_deleted) = ch_count
                     /\ Truthy(ch_stats)
                     /\ ch_stats.num_random_files = ch_count)
    /\ [][ch_deleted' # ch_deleted
             => (ch_stats' = ch_stats /\ ch_pc' = "churn")]_vars

\* A task has returned its result although two deletes or more failed.
C28_Witness ==
    /\ ch_pc = "returned"
    /\ ch_delete_errors >= 2
    /\ Len(ch_deleted) = ch_count
    /\ Truthy(ch_stats)

\* C29: when a default-mode task has ended, a delete has been attempted
\* for every placeholder file it created.
C29_CreatedFilesDeleted ==
    ch_pc \in {"returned", "raised"}
        => \A n \in 1 .. Len(random_files) : random_files[n] \in DeletedSet

(***************************************************************************)
(* Properties of the executor of smb_read_file (checked under SpecPool)    *)
(***************************************************************************)
\* C31: at no time are more than 8 range reads of one streaming read in
\* flight, and the file and the tree are closed only when every read
\* that was submitted has finished.
C31_BoundedFanOut ==
    /\ pool_running <= 8
    /\ pool_pc = "closed"
          => /\ pool_running = 0
             /\ pool_done = pool_submitted

\* Eight reads are in flight while another waits in the queue and one
\* has been collected.
C31_Witness ==
    /\ pool_running = 8
    /\ PoolQueued >= 1
    /\ pool_collected >= 1
    /\ pool_pc = "collect"

(***************************************************************************)
(* Properties of smbgen.py (checked under SpecGen)                         *)
(***************************************************************************)
\* C40: established_connections is the number of connections that are
\* open, at every moment at which no coroutine is between its connect
\* and the increment and no reader between its disconnect and the
\* decrement, on the paths that fail too.
C40_CounterIsOpenConnections ==
    (\A i \in ConnIds : gen_pc[i] \notin {"connected", "disconnected"})
        => established_connections
               = Cardinality({i \in ConnIds : gen_open[i]})

====
